---- MODULE Spec2Model ----
(***************************************************************************)
(* A model of the core of yaIRCd: the per-client messages queue            *)
(* (client_queue.c) and the stream reassembler of the messages parser      *)
(* (read_data / next_msg).                                                 *)
(*                                                                         *)
(* The queue is shared by several threads and is modelled with one         *)
(* program counter per thread; the critical section of every operation is  *)
(* entered by taking the queue's mutex and left by releasing it.           *)
(***************************************************************************)
EXTENDS Integers, Sequences, FiniteSets, TLC

(***************************************************************************)
(* Bounds.  WRITE_QUEUE_SIZE stands for the macro of the same name (the    *)
(* ring's capacity); it is scaled down so that the ring wraps within the   *)
(* explored runs.  NumThreads is the number of threads that use one queue, *)
(* MaxStrdup the number of strdup() calls that succeed in a run.           *)
(***************************************************************************)
WRITE_QUEUE_SIZE == 2

NumThreads == 2

MaxStrdup == 4

\* MAX_MSG_SIZE stands for the macro of the same name (512 in protocol.h),
\* the size of the buffer irc_message.msg; it is scaled down.  MaxStreamMsgs
\* is the number of messages in a stream fed to the reassembler.
MAX_MSG_SIZE == 4

MaxStreamMsgs == 3

\* The most bytes one read_from call delivers in the runs with arbitrary
\* input; read_data may be called again at once to deliver more.
MaxRead == 3

\* MAX_IRC_PARAMS stands for the macro of the same name (15 in protocol.h),
\* the size of the parameters array; it is scaled down.  MaxLineLen is the
\* length of the longest line handed to the parser: long enough for a
\* command with MAX_IRC_PARAMS + 1 parameters.
MAX_IRC_PARAMS == 2

MaxLineLen == 2 * MAX_IRC_PARAMS + 3

\* The largest depth passed to a prefix search of the trie.
MaxDepth == 3

Threads == 1..NumThreads

Slots == 0..(WRITE_QUEUE_SIZE - 1)

\* A string is identified by the number of the strdup() call that made it;
\* NoStr is the value of a pointer that holds no string (NULL / never set).
NoStr == 0

VARIABLES
    q_messages,   \* queue->messages[] : Slots -> string id
    q_top,        \* queue->top
    q_bottom,     \* queue->bottom
    q_elements,   \* queue->elements
    q_mutex,      \* queue->mutex : 0 when free, else the thread holding it
    t_pc,         \* position of each thread
    t_i,          \* local i of client_queue_foreach
    t_j,          \* local j of client_queue_foreach
    last_ret,     \* the last return of a queue operation: thread, operation, value
    strdup_count, \* number of successful strdup() calls so far
    heap,         \* strings allocated and not yet freed
    enq_log,      \* history: strings stored by client_enqueue, in order
    out_log,      \* history: strings returned by client_dequeue or passed to f
    fe_snapshot,  \* history: queue contents when the running foreach took the mutex
    fe_called     \* history: strings the running foreach passed to f so far

VARIABLES
    cm,           \* struct irc_message: msg[], status, index, last_stop, msg_begin
    cm_clobbered, \* an out-of-bounds store has overwritten the fields of cm
    last_op,      \* the reassembler function that ran last
    nm,           \* what the last next_msg returned: ret, len, msg (offset of *msg)
    rd,           \* the last read_from call of read_data: dest, req, n
    overlong,     \* history: read_data found a full, fully scanned buffer and read on
    ol_tail,      \* history: a full buffer without terminator was reset and no
                  \* terminator has been consumed since
    scanned,      \* history: the indexes below index whose byte a next_msg scan has seen
    w_pc,         \* position of the worker's read callback
    sock,         \* bytes of the stream the socket has not delivered yet
    sent,         \* history: the messages the stream was built from
    extracted,    \* history: the messages next_msg returned, in order
    crlf_split,   \* history: a read ended between a CR and its LF
    reads,        \* history: number of read_data calls of the worker
    loop_msgs     \* history: messages returned since the last read_data

VARIABLES
    p_pc,         \* position of the caller of parse_msg
    p_line,       \* the line handed to parse_msg
    p_res,        \* what parse_msg returned and left in its output parameters
    g_parts       \* history: the fields the line was composed of

VARIABLES
    k_pc,         \* position of the caller of the codec
    k_char,       \* the character converted
    k_valid,      \* what nick_is_valid returned for it
    k_id,         \* what nick_char_to_pos returned for it
    k_back,       \* what nick_pos_to_char returned for that ID
    k_other,      \* a second input character
    k_id2         \* what nick_char_to_pos returned for the second character

VARIABLES
    reg,          \* the trie of the clients list: path -> client stored (and its spelling)
    reg_mutex,    \* the list's lock: 0 when free, else the worker holding it
    r_pc,         \* position of each worker in a list operation
    r_arg,        \* the nickname argument of each worker's operation
    r_found,      \* the client find_and_execute passes to f
    r_last,       \* the result of the list operation that is returning: worker, operation, value
    c_nick        \* client->nick of each worker's client

reasm_vars == <<cm, cm_clobbered, last_op, nm, rd, overlong, ol_tail, scanned>>

stream_vars == <<w_pc, sock, sent, extracted, crlf_split, reads, loop_msgs>>

queue_vars == <<q_messages, q_top, q_bottom, q_elements, q_mutex>>

thread_vars == <<t_pc, t_i, t_j, last_ret>>

hist_vars == <<strdup_count, heap, enq_log, out_log, fe_snapshot, fe_called>>

parse_vars == <<p_pc, p_line, p_res, g_parts>>

codec_vars == <<k_pc, k_char, k_valid, k_id, k_back, k_other, k_id2>>

VARIABLES
    tr,           \* the trie: path -> node (is_word, children, data)
    tr_ins,       \* the words that were added to the trie and not deleted since
    tr_res,       \* the last trie operation and what it returned
    cur,          \* the stack of a prefix search (struct trie_node_stack), if any
    pf_out,       \* what the calls of the prefix search have reported so far
    pf_q          \* the prefix search: its prefix, its depth, and how far it is

VARIABLES
    n_pc,          \* position of each delivering thread in notify_privmsg
    n_ret,         \* what client_enqueue returned to notify_privmsg, and whether the queue was full
    n_sent,        \* the strings each thread has put in the queue, in order
    n_last,        \* the notify_privmsg call that has returned, until the next call
    n_calls,       \* the number of notify_privmsg calls so far
    async_pending, \* the recipient's async watcher is pending
    l_pc           \* position of the recipient's events loop

VARIABLES
    c_life,        \* how far each client is: live, closed, deleting, deleted, freed
    c_sock         \* each client's socket: open or closed

\* The variables of the components added after the queue and the reassembler.
reg_vars == <<reg, reg_mutex, r_pc, r_arg, r_found, r_last, c_nick>>

trie_vars == <<tr, tr_ins, tr_res, cur, pf_out, pf_q>>

notify_vars == <<n_pc, n_ret, n_sent, n_last, n_calls, async_pending, l_pc>>

life_vars == <<c_life, c_sock>>

late_vars == <<trie_vars, notify_vars, life_vars>>

more_vars == <<parse_vars, codec_vars, reg_vars, late_vars>>

vars == <<queue_vars, thread_vars, hist_vars, reasm_vars, stream_vars, more_vars>>

(***************************************************************************)
(* The strings the queue holds, oldest first: elements slots from bottom.  *)
(***************************************************************************)
QueueContents ==
    [k \in 1..q_elements |-> q_messages[(q_bottom + k - 1) % WRITE_QUEUE_SIZE]]

\* A ring index advanced by one slot: (i+1)%WRITE_QUEUE_SIZE.
ring_next_short(i) == (i + 1) % (WRITE_QUEUE_SIZE - 1)

ring_next(i) == (i + 1) % WRITE_QUEUE_SIZE

\* queue->elements == WRITE_QUEUE_SIZE, the test of client_enqueue.
queue_full_never == q_elements > WRITE_QUEUE_SIZE

queue_full == q_elements = WRITE_QUEUE_SIZE

\* queue->elements == 0, the test of client_dequeue and client_is_queue_empty.
queue_empty_never == q_elements < 0

queue_empty == q_elements = 0

\* What a thread's caller sees when a queue operation returns.
Returned(t, o, v) == [thread |-> t, op |-> o, val |-> v]

IsPrefix(s, t) ==
    /\ Len(s) <= Len(t)
    /\ \A k \in 1..Len(s) : s[k] = t[k]

\* pthread_mutex_lock(&queue->mutex): blocks until the mutex is free.
pthread_mutex_lock_nowait(t) ==
    /\ q_mutex' = t

pthread_mutex_lock(t) ==
    /\ q_mutex = 0
    /\ q_mutex' = t

\* pthread_mutex_unlock(&queue->mutex), on every path out of an operation
\* (lines 65, 71, 84, 90, 102, 124).
pthread_mutex_unlock_missing(t) ==
    /\ q_mutex' = q_mutex

pthread_mutex_unlock(t) ==
    /\ q_mutex' = 0

\* client_queue_init: the state of a queue after construction.
client_queue_init ==
    /\ q_top = 0
    /\ q_bottom = 0
    /\ q_elements = 0
    /\ q_mutex = 0
    /\ q_messages = [s \in Slots |-> NoStr]

InitQueueVars ==
    /\ client_queue_init
    /\ t_pc = [t \in Threads |-> "idle"]
    /\ t_i = [t \in Threads |-> 0]
    /\ t_j = [t \in Threads |-> 0]
    /\ last_ret = [thread |-> 0, op |-> "none", val |-> 0]
    /\ strdup_count = 0
    /\ heap = {}
    /\ enq_log = <<>>
    /\ out_log = <<>>
    /\ fe_snapshot = <<>>
    /\ fe_called = <<>>

\* A thread calls a queue operation: it takes the mutex (line 63, 82, 100, 119).
\* client_queue_foreach also runs its loop initialisation i = bottom, j = 0.
call_op(t, op) ==
    /\ t_pc[t] = "idle"
    /\ pthread_mutex_lock(t)
    /\ t_pc' = [t_pc EXCEPT ![t] = op]
    /\ IF op = "foreach"
       THEN /\ t_i' = [t_i EXCEPT ![t] = q_bottom]
            /\ t_j' = [t_j EXCEPT ![t] = 0]
            /\ fe_snapshot' = QueueContents
            /\ fe_called' = <<>>
       ELSE UNCHANGED <<t_i, t_j, fe_snapshot, fe_called>>
    /\ UNCHANGED <<q_messages, q_top, q_bottom, q_elements, last_ret>>
    /\ UNCHANGED <<strdup_count, heap, enq_log, out_log>>

call_enqueue(t) ==
    /\ strdup_count < MaxStrdup
    /\ call_op(t, "enqueue")

call_dequeue(t) == call_op(t, "dequeue")

call_is_queue_empty(t) == call_op(t, "is_empty")

call_foreach(t) == call_op(t, "foreach")

\* The body of client_enqueue, run with the mutex held.  strdup() may fail
\* (dup_ok = FALSE).  It is called before the queue is tested for being full.
enqueue_body(t, dup_ok) ==
    /\ t_pc[t] = "enqueue"
    /\ IF ~dup_ok
       THEN /\ last_ret' = Returned(t, "enqueue", -1)
            /\ UNCHANGED <<q_messages, q_top, q_elements>>
            /\ UNCHANGED <<strdup_count, heap, enq_log>>
       ELSE LET str == strdup_count + 1 IN
            /\ strdup_count' = str
            /\ heap' = heap \cup {str}
            /\ IF queue_full
               THEN /\ last_ret' = Returned(t, "enqueue", -1)
                    /\ UNCHANGED <<q_messages, q_top, q_elements, enq_log>>
               ELSE /\ q_messages' = [q_messages EXCEPT ![q_top] = str]
                    /\ q_top' = ring_next(q_top)
                    /\ q_elements' = q_elements + 1
                    /\ enq_log' = Append(enq_log, str)
                    /\ last_ret' = Returned(t, "enqueue", 0)
    /\ pthread_mutex_unlock(t)
    /\ t_pc' = [t_pc EXCEPT ![t] = "idle"]
    /\ UNCHANGED <<q_bottom, t_i, t_j, out_log, fe_snapshot, fe_called>>

client_enqueue(t) == \E dup_ok \in BOOLEAN : enqueue_body(t, dup_ok)

\* The body of client_dequeue.  The caller owns the string returned and
\* frees it; the slot keeps the stale pointer.
client_dequeue(t) ==
    /\ t_pc[t] = "dequeue"
    /\ IF queue_empty
       THEN /\ last_ret' = Returned(t, "dequeue", NoStr)
            /\ UNCHANGED <<q_bottom, q_elements, heap, out_log>>
       ELSE LET ptr == q_messages[q_bottom] IN
            /\ q_bottom' = ring_next(q_bottom)
            /\ q_elements' = q_elements - 1
            /\ last_ret' = Returned(t, "dequeue", ptr)
            /\ out_log' = Append(out_log, ptr)
            /\ heap' = heap \ {ptr}
    /\ pthread_mutex_unlock(t)
    /\ t_pc' = [t_pc EXCEPT ![t] = "idle"]
    /\ UNCHANGED <<q_messages, q_top, t_i, t_j>>
    /\ UNCHANGED <<strdup_count, enq_log, fe_snapshot, fe_called>>

\* The body of client_is_queue_empty.
client_is_queue_empty(t) ==
    /\ t_pc[t] = "is_empty"
    /\ last_ret' = Returned(t, "is_empty", IF queue_empty THEN 1 ELSE 0)
    /\ pthread_mutex_unlock(t)
    /\ t_pc' = [t_pc EXCEPT ![t] = "idle"]
    /\ UNCHANGED <<q_messages, q_top, q_bottom, q_elements, t_i, t_j>>
    /\ UNCHANGED hist_vars

\* One iteration of the loop of client_queue_foreach: (*f)(messages[i], args);
\* f frees the message.
foreach_iter(t) ==
    /\ t_pc[t] = "foreach"
    /\ t_j[t] < q_elements
    /\ LET ptr == q_messages[t_i[t]] IN
         /\ out_log' = Append(out_log, ptr)
         /\ fe_called' = Append(fe_called, ptr)
         /\ heap' = heap \ {ptr}
    /\ t_j' = [t_j EXCEPT ![t] = t_j[t] + 1]
    /\ t_i' = [t_i EXCEPT ![t] = ring_next(t_i[t])]
    /\ UNCHANGED <<queue_vars, t_pc, last_ret>>
    /\ UNCHANGED <<strdup_count, enq_log, fe_snapshot>>

\* The end of client_queue_foreach: the loop is over, the queue is reset and
\* the mutex released.
foreach_exit(t) ==
    /\ t_pc[t] = "foreach"
    /\ ~(t_j[t] < q_elements)
    /\ q_bottom' = 0
    /\ q_top' = 0
    /\ q_elements' = 0
    /\ pthread_mutex_unlock(t)
    /\ t_pc' = [t_pc EXCEPT ![t] = "idle"]
    /\ last_ret' = Returned(t, "foreach", 0)
    /\ UNCHANGED <<q_messages, t_i, t_j>>
    /\ UNCHANGED hist_vars

StepQueue ==
    \E t \in Threads :
        \/ call_enqueue(t)
        \/ call_dequeue(t)
        \/ call_is_queue_empty(t)
        \/ call_foreach(t)
        \/ client_enqueue(t)
        \/ client_dequeue(t)
        \/ client_is_queue_empty(t)
        \/ foreach_iter(t)
        \/ foreach_exit(t)

(***************************************************************************)
(* The stream reassembler: struct irc_message, read_data and next_msg.     *)
(***************************************************************************)

CR == "CR"

LF == "LF"

\* The content of a byte of msg[] that nothing has been read into yet.
NUL == "NUL"

Payload == {"a", "b"}

\* The bytes a client may send in the runs with arbitrary input.
SockBytes == {CR, LF, "a"}

STATUS_SEEN_CR == "SEEN_CR"

STATUS_SEEN_LF == "SEEN_LF"

SeenBoth == {STATUS_SEEN_CR, STATUS_SEEN_LF}

BufIdx == 0..(MAX_MSG_SIZE - 1)

Min(a, b) == IF a < b THEN a ELSE b

\* initialize_irc_message: status, index, last_stop and msg_begin are zeroed;
\* msg[] is left as it is.
initialize_keep_index(in) ==
    [in EXCEPT !.status = {}, !.last_stop = 0, !.msg_begin = 0]

initialize_irc_message(in) ==
    [in EXCEPT !.status = {}, !.index = 0, !.last_stop = 0, !.msg_begin = 0]

\* bring_to_top(to, buf, length), with to = msg + to and buf = msg + from: the
\* bytes are copied one by one, lowest address first; nothing is copied when
\* to == buf or length <= 0.  to <= from in every call, so no byte is read
\* after it was overwritten.
bring_to_top_nocopy(msg, to, from, length) == msg

bring_to_top(msg, to, from, length) ==
    IF to = from
    THEN msg
    ELSE [k \in BufIdx |->
            IF k >= to /\ k < to + length THEN msg[from + (k - to)] ELSE msg[k]]

\* The status flag a byte sets in the scan of next_msg.
flag_of(b) ==
    IF b = CR THEN {STATUS_SEEN_CR}
    ELSE IF b = LF THEN {STATUS_SEEN_LF}
    ELSE {}

\* The for loop of next_msg: from i, while not both flags are set and
\* i < index.  Yields the final i and status.
RECURSIVE scan_to_end(_, _, _, _)
scan_to_end(msg, status, i, index) ==
    IF i < index
    THEN scan_to_end(msg, status \cup flag_of(msg[i]), i + 1, index)
    ELSE [i |-> i, status |-> status]

RECURSIVE scan(_, _, _, _)
scan(msg, status, i, index) ==
    IF status # SeenBoth /\ i < index
    THEN scan(msg, status \cup flag_of(msg[i]), i + 1, index)
    ELSE [i |-> i, status |-> status]

\* The test of next_msg on the candidate message that ends before i.
terminated_lf_only(msg, len, i) ==
    len >= 2 /\ msg[i - 1] = LF

terminated(msg, len, i) ==
    len >= 2 /\ msg[i - 1] = LF /\ msg[i - 2] = CR

\* next_msg(client_msg, &msg): the value returned (ret: "MSG" for a length,
\* else the negative constant), the length, the offset of *msg in msg[], and
\* the structure afterwards.
next_msg(c) ==
    LET s == scan(c.msg, c.status, c.last_stop, c.index)
        i == s.i
    IN  IF s.status = SeenBoth
        THEN LET len == i - c.msg_begin
                 c1 == [c EXCEPT !.status = {}, !.last_stop = i, !.msg_begin = i]
             IN  IF terminated(c.msg, len, i)
                 THEN [ret |-> "MSG", len |-> len, msg |-> c.msg_begin, cm |-> c1]
                 ELSE [ret |-> "MSG_FINISH_ERR", len |-> 0, msg |-> c.msg_begin,
                       cm |-> initialize_irc_message(c1)]
        ELSE LET index == c.index - c.msg_begin
             IN  [ret |-> "MSG_CONTINUE", len |-> 0, msg |-> 0,
                  cm |-> [c EXCEPT !.status = s.status,
                                   !.msg = bring_to_top(c.msg, 0, c.msg_begin, index),
                                   !.index = index,
                                   !.last_stop = index,
                                   !.msg_begin = 0]]

\* The bytes of the message a next_msg result r points to.
msg_bytes(r) == [k \in 1..r.len |-> r.cm.msg[r.msg + k - 1]]

\* The length read_data passes to read_from: sizeof(msg) - index, with index
\* as it is after the reset of a full buffer.
read_req(c) ==
    IF MAX_MSG_SIZE <= c.index THEN MAX_MSG_SIZE ELSE MAX_MSG_SIZE - c.index

\* read_from(client, buf, len) stores the bytes `data` the socket delivers
\* (at most len of them) from buf on, and returns their number.  A byte whose
\* address is inside msg[] changes msg[]; any other is an out-of-bounds store.
read_from(msg, dest, data) ==
    [k \in BufIdx |->
        IF k >= dest /\ k < dest + Len(data) THEN data[k - dest + 1] ELSE msg[k]]

\* read_data(client).  buf = msg + index is computed on entry, before the
\* test that resets a full buffer; read_from then stores at that buf.
read_dest(c) == c.index

read_data(c, data) ==
    LET dest == read_dest(c)
        c1 == IF MAX_MSG_SIZE <= c.index THEN initialize_irc_message(c) ELSE c
        n == Len(data)
    IN  [cm |-> [c1 EXCEPT !.msg = read_from(c.msg, dest, data),
                           !.index = c1.index + n],
         dest |-> dest,
         req |-> MAX_MSG_SIZE - c1.index,
         n |-> n,
         oob |-> (n > 0 /\ dest + n > MAX_MSG_SIZE)]

\* What an out-of-bounds store can leave in the fields of the structure that
\* lie next to msg[]: any values (sampled here at the ends of the fields'
\* ranges).
Clobbered(c) ==
    {[c EXCEPT !.status = st, !.index = ix, !.last_stop = ls, !.msg_begin = mb] :
        st \in {{}, SeenBoth}, ix \in {0, MAX_MSG_SIZE},
        ls \in {0, MAX_MSG_SIZE}, mb \in {0, MAX_MSG_SIZE}}

\* The value of nm (rd) when next_msg (read_data) is not the function that
\* ran last.
NoCall == [ret |-> "NONE"]

\* The effect of a read_data call whose result is r.  When read_from stored
\* out of bounds, the behaviour is undefined: either the bytes landed where
\* they do no harm to the structure, or its fields were overwritten.
read_effect(r) ==
    /\ rd' = [ret |-> "READ", dest |-> r.dest, req |-> r.req, n |-> r.n]
    /\ last_op' = "read_data"
    /\ overlong' = (cm.index = MAX_MSG_SIZE /\ cm.last_stop = cm.index
                    /\ cm.msg_begin = 0 /\ r.n >= 1)
    /\ ol_tail' = (ol_tail \/ (cm.index = MAX_MSG_SIZE /\ cm.last_stop = cm.index
                                /\ cm.msg_begin = 0))
    /\ scanned' = {k \in scanned : k < r.cm.index /\ ~(k >= r.dest /\ k < r.dest + r.n)}
    /\ IF r.oob
       THEN \/ cm' = r.cm /\ cm_clobbered' = FALSE
            \/ cm' \in Clobbered(r.cm) /\ cm_clobbered' = TRUE
       ELSE cm' = r.cm /\ cm_clobbered' = FALSE
    /\ nm' = NoCall

\* The indexes of msg[] the for loop of next_msg looks at in a call on c.
scan_range(c) == c.last_stop .. (scan(c.msg, c.status, c.last_stop, c.index).i - 1)

\* The indexes below index whose byte has been seen by a scan, after a
\* next_msg call on c that returned ret: bring_to_top moves the bytes, and
\* the marks with them; MSG_FINISH_ERR empties the buffer.
scanned_after(c, seen, ret) ==
    LET all == seen \cup scan_range(c)
        index == c.index - c.msg_begin
    IN  IF ret = "MSG_CONTINUE"
        THEN {k \in BufIdx : k < index /\ k + c.msg_begin \in all}
        ELSE IF ret = "MSG_FINISH_ERR" THEN {} ELSE all

next_effect(r) ==
    /\ cm' = r.cm
    /\ nm' = [ret |-> r.ret, len |-> r.len, msg |-> r.msg]
    /\ last_op' = "next_msg"
    /\ overlong' = FALSE
    /\ ol_tail' = (ol_tail /\ r.ret = "MSG_CONTINUE")
    /\ scanned' = scanned_after(cm, scanned, r.ret)
    /\ rd' = NoCall
    /\ UNCHANGED cm_clobbered

\* A structure after initialize_irc_message, nothing read into msg[] yet.
cm_init ==
    initialize_irc_message([msg |-> [k \in BufIdx |-> NUL], status |-> {},
                            index |-> 0, last_stop |-> 0, msg_begin |-> 0])

InitReasmVars ==
    /\ cm = cm_init
    /\ cm_clobbered = FALSE
    /\ last_op = "init"
    /\ nm = NoCall
    /\ rd = NoCall
    /\ overlong = FALSE
    /\ ol_tail = FALSE
    /\ scanned = {}

\* The n bytes the socket may deliver to a read_data call on c.  Bytes that
\* are stored past the end of msg[] are not kept anywhere in cm, so their
\* values are not told apart.
SockData(c, n) ==
    IF read_dest(c) >= MAX_MSG_SIZE
    THEN {[k \in 1..n |-> "a"]}
    ELSE [1..n -> SockBytes]

\* read_data is called; the socket delivers any n <= len bytes.
ReadData ==
    /\ ~cm_clobbered
    /\ \E n \in 0..Min(read_req(cm), MaxRead) :
         \E data \in SockData(cm, n) :
            read_effect(read_data(cm, data))

\* next_msg is called.
NextMsg ==
    /\ ~cm_clobbered
    /\ next_effect(next_msg(cm))

(***************************************************************************)
(* The worker's read callback on a stream of valid messages: read_data,    *)
(* then next_msg until it returns MSG_CONTINUE or MSG_FINISH_ERR.          *)
(***************************************************************************)

\* Message k of a stream: plen payload bytes, then CR LF.
StreamMsg(k, plen) ==
    [j \in 1..(plen + 2) |->
        IF j = plen + 1 THEN CR
        ELSE IF j = plen + 2 THEN LF
        ELSE IF k % 2 = 1 THEN "a" ELSE "b"]

\* The streams: 1..MaxStreamMsgs messages of 2..MAX_MSG_SIZE bytes each.
ValidStreams ==
    UNION {{[k \in 1..m |-> StreamMsg(k, f[k])] : f \in [1..m -> 0..(MAX_MSG_SIZE - 2)]} :
            m \in 1..MaxStreamMsgs}

RECURSIVE Flatten(_)
Flatten(ms) == IF ms = <<>> THEN <<>> ELSE Head(ms) \o Flatten(Tail(ms))

InitStreamIdle ==
    /\ w_pc = "read"
    /\ sock = <<>>
    /\ sent = <<>>
    /\ extracted = <<>>
    /\ crlf_split = FALSE
    /\ reads = 0
    /\ loop_msgs = 0

InitStreamVars ==
    /\ w_pc = "read"
    /\ sent \in ValidStreams
    /\ sock = Flatten(sent)
    /\ extracted = <<>>
    /\ crlf_split = FALSE
    /\ reads = 0
    /\ loop_msgs = 0

\* The socket is readable: read_data gets the next n bytes of the stream.
WorkerRead ==
    /\ w_pc = "read"
    /\ ~cm_clobbered
    /\ sock # <<>>
    /\ \E n \in 1..Min(read_req(cm), Len(sock)) :
         /\ read_effect(read_data(cm, SubSeq(sock, 1, n)))
         /\ sock' = SubSeq(sock, n + 1, Len(sock))
         /\ crlf_split' = (crlf_split \/ (sock[n] = CR /\ n < Len(sock)))
    /\ w_pc' = "extract"
    /\ reads' = reads + 1
    /\ loop_msgs' = 0
    /\ UNCHANGED <<sent, extracted>>

\* One next_msg call of the callback's loop.
WorkerExtract ==
    /\ w_pc = "extract"
    /\ ~cm_clobbered
    /\ LET r == next_msg(cm) IN
         /\ next_effect(r)
         /\ IF r.ret = "MSG"
            THEN /\ extracted' = Append(extracted, msg_bytes(r))
                 /\ loop_msgs' = loop_msgs + 1
                 /\ w_pc' = "extract"
            ELSE /\ w_pc' = "read"
                 /\ UNCHANGED <<extracted, loop_msgs>>
    /\ UNCHANGED <<sock, sent, crlf_split, reads>>

\* The same callback run to the end on a whole stream, each read_data getting
\* as many bytes as it asks for.
RECURSIVE ExtractAll(_, _)
ExtractAll(c, out) ==
    LET r == next_msg(c) IN
    IF r.ret = "MSG"
    THEN ExtractAll(r.cm, Append(out, msg_bytes(r)))
    ELSE [cm |-> r.cm, out |-> out]

RECURSIVE FeedWhole(_, _, _)
FeedWhole(c, rest, out) ==
    IF rest = <<>>
    THEN out
    ELSE LET n == Min(read_req(c), Len(rest))
             e == ExtractAll(read_data(c, SubSeq(rest, 1, n)).cm, out)
         IN  FeedWhole(e.cm, SubSeq(rest, n + 1, Len(rest)), e.out)

(***************************************************************************)
(* The messages parser: skipspaces, skipnonspaces, read_params, parse_msg. *)
(* A buffer is a function on 0..n whose last byte is NUL; a pointer into   *)
(* it is an offset.  Every result carries hi, the highest offset the       *)
(* function has dereferenced.                                              *)
(***************************************************************************)

SP == " "

COLON == ":"

\* The characters of the input lines: a space, a colon, a digit, a letter.
LineChars == {SP, COLON, "1", "a"}

isdigit(c) == c = "1"

isalpha(c) == c = "a"

\* The value of a pointer that is NULL or was never set.
NULL == -1

Max(a, b) == IF a > b THEN a ELSE b

\* The buffer that holds the null terminated string `line`.
BufOf(line) == [k \in 0..Len(line) |-> IF k < Len(line) THEN line[k + 1] ELSE NUL]

\* *p; OOB is what lies past the terminating NUL.
At(b, p) == IF p \in DOMAIN b THEN b[p] ELSE "OOB"

\* The string a pointer p into b points to: the bytes before the next NUL.
RECURSIVE StrAt(_, _)
StrAt(b, p) ==
    IF p \notin DOMAIN b \/ b[p] = NUL THEN <<>> ELSE <<b[p]>> \o StrAt(b, p + 1)

RECURSIVE skipspaces(_, _)
skipspaces(b, str) ==
    IF At(b, str) # NUL /\ At(b, str) = SP THEN skipspaces(b, str + 1) ELSE str

RECURSIVE skipnonspaces(_, _)
skipnonspaces(b, str) ==
    IF str \in DOMAIN b /\ b[str] # NUL /\ b[str] # SP
    THEN skipnonspaces(b, str + 1)
    ELSE str

\* The for loop of parse_msg over the letters of a command.
skipalpha_one(b, next) ==
    IF At(b, next) # NUL /\ isalpha(At(b, next)) THEN next + 1 ELSE next

RECURSIVE skipalpha(_, _)
skipalpha(b, next) ==
    IF At(b, next) # NUL /\ isalpha(At(b, next)) THEN skipalpha(b, next + 1) ELSE next

\* The test of read_params that refuses one more parameter in its loop.
params_full_never(pos) == FALSE

params_full(pos) == pos = MAX_IRC_PARAMS

\* The start of the trailing parameter, for the ':' at offset buf.
trailing_start_at_colon(b, buf) == buf + 1

trailing_start(b, buf) == skipspaces(b, buf + 1)

\* read_params, from the top of its loop: buf and next were just set by
\* skipspaces and skipnonspaces; params are the pointers stored so far.
\* Yields the return value, the buffer and the pointers afterwards.
RECURSIVE read_params_loop(_, _, _, _)
read_params_loop(b, buf, params, hi) ==
    LET next == skipnonspaces(b, buf)
        hi1 == Max(hi, Max(buf, next))
    IN  IF At(b, buf) # NUL /\ At(b, buf) # COLON
        THEN IF params_full(Len(params))
             THEN [ret |-> -1, buf |-> b, params |-> params, hi |-> hi1]
             ELSE LET b1 == IF b[next] = NUL THEN b ELSE [b EXCEPT ![next] = NUL]
                      nb == IF b[next] = NUL THEN next ELSE next + 1
                  IN  read_params_loop(b1, skipspaces(b1, nb), Append(params, buf), hi1)
        ELSE IF At(b, buf) = COLON
        THEN LET t == trailing_start(b, buf)
             IN  IF Len(params) < MAX_IRC_PARAMS
                 THEN [ret |-> Len(params) + 1, buf |-> b,
                       params |-> Append(params, t), hi |-> Max(hi1, t)]
                 ELSE [ret |-> -1, buf |-> b, params |-> params, hi |-> Max(hi1, t)]
        ELSE [ret |-> Len(params), buf |-> b, params |-> params, hi |-> hi1]

read_params(b, buf) == read_params_loop(b, skipspaces(b, buf), <<>>, buf)

\* The three-digits test of parse_msg, evaluated left to right.
three_digits_unterminated(b, current) ==
    isdigit(At(b, current + 1)) /\ isdigit(At(b, current + 2))

three_digits(b, current) ==
    /\ isdigit(At(b, current + 1))
    /\ isdigit(At(b, current + 2))
    /\ (At(b, current + 3) = NUL \/ At(b, current + 3) = SP)

\* The highest offset the three-digits test dereferences.
three_digits_hi(b, current) ==
    IF ~isdigit(At(b, current + 1)) THEN current + 1
    ELSE IF ~isdigit(At(b, current + 2)) THEN current + 2
    ELSE current + 3

\* The result of parse_msg when it returns -1.
parse_error(b, prefix, hi) ==
    [ret |-> -1, prefix |-> prefix, cmd |-> NULL, params |-> <<>>,
     params_filled |-> 0, buf |-> b, hi |-> hi]

\* parse_msg from `/* Parse command */` on: current points to the first byte
\* of the command, which is neither a space nor NUL.
parse_command(b, current, prefix, ret, hi) ==
    LET digits == isdigit(At(b, current))
        ok == IF digits THEN three_digits(b, current)
              ELSE LET n == skipalpha(b, current)
                   IN  ~(At(b, n) # NUL /\ At(b, n) # SP)
        next == IF digits THEN current + 3 ELSE skipalpha(b, current)
        hi1 == Max(hi, IF digits THEN three_digits_hi(b, current) ELSE next)
    IN  IF ~ok
        THEN parse_error(b, prefix, hi1)
        ELSE IF At(b, next) # NUL
        THEN LET rp == read_params(b, next + 1)
             IN  IF rp.ret = -1
                 THEN [parse_error(rp.buf, prefix, Max(hi1, rp.hi))
                          EXCEPT !.params = rp.params]
                 ELSE [ret |-> ret, prefix |-> prefix, cmd |-> current,
                       params |-> rp.params, params_filled |-> rp.ret,
                       buf |-> [rp.buf EXCEPT ![next] = NUL],
                       hi |-> Max(hi1, rp.hi)]
        ELSE [ret |-> ret, prefix |-> prefix, cmd |-> current, params |-> <<>>,
              params_filled |-> 0, buf |-> b, hi |-> hi1]

\* The test of parse_msg that rejects a prefix.
no_prefix_only_if_empty(b, current, next) == next = current + 1

no_prefix_only_at_end(b, current, next) == b[next] = NUL

no_prefix(b, current, next) == b[next] = NUL \/ next = current + 1

\* parse_msg(buf, &prefix, &cmd, params, &params_filled).
parse_msg(buf) ==
    LET current == skipspaces(buf, 0)
    IN  IF buf[current] = COLON
        THEN LET next == skipnonspaces(buf, current + 1)
             IN  IF no_prefix(buf, current, next)
                 THEN parse_error(buf, NULL, next)
                 ELSE LET b1 == [buf EXCEPT ![next] = NUL]
                          c1 == skipspaces(b1, next + 1)
                      IN  IF At(b1, c1) = NUL
                          THEN parse_error(b1, current + 1, c1)
                          ELSE parse_command(b1, c1, current + 1, 1, c1)
        ELSE IF buf[current] = NUL
        THEN parse_error(buf, NULL, current)
        ELSE parse_command(buf, current, NULL, 0, current)

\* The input lines: every string of at most MaxLineLen characters.
Lines == UNION {[1..n -> LineChars] : n \in 0..MaxLineLen}

(***************************************************************************)
(* Lines composed after the message format the parser is written for:      *)
(* [':' prefix SPACE+] command (SPACE+ middle)* [SPACE+ ':' trailing].     *)
(***************************************************************************)

\* Prefixes: non-empty runs without a space.
Prefixes == {<<"a">>, <<"1", COLON>>}

\* Commands: three digits, or letters.
Commands == {<<"1", "1", "1">>, <<"a">>, <<"a", "a">>}

\* Middle parameters: non-empty runs without a space that do not start with ':'.
Middles == {<<"a">>, <<"1">>, <<"a", COLON>>, <<"a", "a">>}

\* Trailing parameters: any characters, spaces and ':' included; may be empty.
Trailings == UNION {[1..n -> LineChars] : n \in 0..2}

Spaces(g) == [i \in 1..g |-> SP]

\* The fields of a line: g is the number of spaces of each SPACE+.  A field
\* that is absent is empty.
Parts ==
    {p \in [has_prefix : BOOLEAN, prefix : Prefixes \cup {<<>>}, cmd : Commands,
            middles : UNION {[1..n -> Middles] : n \in 0..MAX_IRC_PARAMS},
            has_trailing : BOOLEAN, trailing : Trailings, g : 1..2] :
        /\ p.has_prefix <=> (p.prefix # <<>>)
        /\ ~p.has_trailing => p.trailing = <<>>
        /\ Len(p.middles) + (IF p.has_trailing THEN 1 ELSE 0) <= MAX_IRC_PARAMS}

\* The line with the fields p.
Build(p) ==
    (IF p.has_prefix THEN <<COLON>> \o p.prefix \o Spaces(p.g) ELSE <<>>)
    \o p.cmd
    \o Flatten([i \in 1..Len(p.middles) |-> Spaces(p.g) \o p.middles[i]])
    \o (IF p.has_trailing THEN Spaces(p.g) \o <<COLON>> \o p.trailing ELSE <<>>)

InitGrammarVars ==
    /\ p_pc = "call"
    /\ g_parts \in Parts
    /\ p_line = Build(g_parts)
    /\ p_res = NoCall

InitParseIdle ==
    /\ p_pc = "idle"
    /\ p_line = <<>>
    /\ p_res = NoCall
    /\ g_parts = NoCall

InitParseVars ==
    /\ p_pc = "call"
    /\ p_line \in Lines
    /\ p_res = NoCall
    /\ g_parts = NoCall

\* parse_msg is called on the buffer that holds the line.
ParseMsg ==
    /\ p_pc = "call"
    /\ p_res' = parse_msg(BufOf(p_line))
    /\ p_pc' = "done"
    /\ UNCHANGED <<p_line, g_parts>>

(***************************************************************************)
(* The nicknames codec of the clients list: nick_is_valid,                 *)
(* nick_char_to_pos, nick_pos_to_char.  A character is its ASCII code.     *)
(***************************************************************************)

ch_a == 97

ch_z == 122

ch_A == 65

ch_Z == 90

ch_minus == 45

ch_lbracket == 91

ch_backslash == 92

ch_rbracket == 93

ch_caret == 94

ch_backtick == 96

ch_lbrace == 123

ch_pipe == 124

ch_rbrace == 125

\* The number of letter IDs; the specials' IDs follow.
NICK_ALPHABET_SIZE == 26

\* The values of a char that is an ASCII character.
Chars == 0..127

nick_is_valid(s) ==
    \/ (s >= ch_a /\ s <= ch_z)
    \/ (s >= ch_A /\ s <= ch_Z)
    \/ s = ch_minus \/ s = ch_lbracket \/ s = ch_rbracket
    \/ s = ch_backslash \/ s = ch_backtick \/ s = ch_caret
    \/ s = ch_lbrace \/ s = ch_rbrace \/ s = ch_pipe

special_id_to_char(i) ==
    IF i = 0 THEN ch_minus
    ELSE IF i = 1 THEN ch_lbrace
    ELSE IF i = 2 THEN ch_rbrace
    ELSE IF i = 3 THEN ch_pipe
    ELSE IF i = 4 THEN ch_backtick
    ELSE IF i = 5 THEN ch_caret
    ELSE -1

nick_pos_to_char_letters_only(i) == ch_a + i

nick_pos_to_char(i) ==
    IF i < NICK_ALPHABET_SIZE THEN ch_a + i ELSE special_id_to_char(i - NICK_ALPHABET_SIZE)

special_char_id(s) ==
    IF s = ch_minus THEN 0
    ELSE IF s = ch_lbracket \/ s = ch_lbrace THEN 1
    ELSE IF s = ch_rbracket \/ s = ch_rbrace THEN 2
    ELSE IF s = ch_backslash \/ s = ch_pipe THEN 3
    ELSE IF s = ch_backtick THEN 4
    ELSE IF s = ch_caret THEN 5
    ELSE -1

\* tolower in the C locale.
tolower(c) == IF c >= ch_A /\ c <= ch_Z THEN c + (ch_a - ch_A) ELSE c

nick_char_to_pos_no_tolower(s) ==
    IF (s >= ch_a /\ s <= ch_z) \/ (s >= ch_A /\ s <= ch_Z)
    THEN s - ch_a
    ELSE NICK_ALPHABET_SIZE + special_char_id(s)

nick_char_to_pos(s) ==
    IF (s >= ch_a /\ s <= ch_z) \/ (s >= ch_A /\ s <= ch_Z)
    THEN tolower(s) - ch_a
    ELSE NICK_ALPHABET_SIZE + special_char_id(s)

InitCodecIdle ==
    /\ k_pc = "idle"
    /\ k_char = 0
    /\ k_valid = FALSE
    /\ k_id = -1
    /\ k_back = -1
    /\ k_other = 0
    /\ k_id2 = -1

InitCodecVars ==
    /\ k_pc = "call"
    /\ k_char \in Chars
    /\ k_valid = FALSE
    /\ k_id = -1
    /\ k_back = -1
    /\ k_other \in Chars
    /\ k_id2 = -1

\* A character goes through nick_is_valid and, when valid, through
\* nick_char_to_pos and back through nick_pos_to_char, as a word does on its
\* way into and out of the list.
Convert ==
    /\ k_pc = "call"
    /\ k_valid' = nick_is_valid(k_char)
    /\ k_id' = IF nick_is_valid(k_char) THEN nick_char_to_pos(k_char) ELSE -1
    /\ k_back' = IF nick_is_valid(k_char) THEN nick_pos_to_char(nick_char_to_pos(k_char)) ELSE -1
    /\ k_id2' = IF nick_is_valid(k_other) THEN nick_char_to_pos(k_other) ELSE -1
    /\ k_pc' = "done"
    /\ UNCHANGED <<k_char, k_other>>

\* The IDs of the nicknames alphabet: those of the letters and the six
\* special IDs of special_id_to_char.
NickIds == 0 .. (NICK_ALPHABET_SIZE + 5)

\* The input value is taken as an ID: it goes through nick_pos_to_char, and
\* the character through nick_is_valid and back through nick_char_to_pos, as
\* the index of an edge does when a word is spelled out of the list.
Decode ==
    /\ k_pc = "call"
    /\ k_char \in NickIds
    /\ k_back' = nick_pos_to_char(k_char)
    /\ k_valid' = nick_is_valid(nick_pos_to_char(k_char))
    /\ k_id' = nick_char_to_pos(nick_pos_to_char(k_char))
    /\ k_pc' = "decoded"
    /\ UNCHANGED <<k_char, k_other, k_id2>>

(***************************************************************************)
(* The clients list (the registry of nicknames): client_list_add,          *)
(* client_list_delete, client_list_find_and_execute.  The list they wrap   *)
(* is a trie whose edges are indexed by nick_char_to_pos, under one lock.  *)
(* Worker w serves client w.                                               *)
(***************************************************************************)

RegWorkers == 1..NumThreads

\* Max. nick length (protocol.h).
MAX_NICK_LENGTH == 9

\* A nickname of permitted characters that is one character too long; it
\* starts with "b[".
LongNick == [i \in 1..(MAX_NICK_LENGTH + 1) |-> IF i = 2 THEN ch_lbracket ELSE ch_a + 1]

\* The nicknames the workers use: "B{", "b[", "b[bbbbbbbb", and "1", which
\* holds an invalid character.
NickPool == {<<ch_A + 1, ch_lbrace>>, <<ch_a + 1, ch_lbracket>>, LongNick, <<49>>}

\* client->nick == NULL.
NoNick == <<NULL>>

\* No client at a node of the trie (is_word is false), or no match.
NoClient == 0

\* The test of a word on its way into the list: is_valid on each of its
\* characters; its length is not looked at.
nick_valid_unchecked(n) == TRUE

nick_valid(n) == \A i \in 1..Len(n) : nick_is_valid(n[i])

\* The path of a nickname in the trie: the edge index of each character.
Key(n) == [i \in 1..Len(n) |-> nick_char_to_pos(n[i])]

RegKeys == {Key(n) : n \in {m \in NickPool : nick_valid(m)}}

\* The client stored under a nickname; NoClient for an invalid one.
find_word(n) == IF nick_valid(n) THEN reg[Key(n)].client ELSE NoClient

\* No word at a path of the trie.
NoEntry == [client |-> NoClient, nick |-> NoNick]

\* The trie after the word n was deleted: the word's node is no word any
\* more; when n is not a word of the trie, nothing changes.
delete_word_prune_path(r, n) ==
    IF r[Key(n)] # NoEntry
    THEN [r EXCEPT ![Key(n)] = NoEntry]
    ELSE [k \in DOMAIN r |->
            IF Len(k) >= Len(n) /\ SubSeq(k, 1, Len(n)) = Key(n) THEN NoEntry ELSE r[k]]

delete_word(r, n) == [r EXCEPT ![Key(n)] = NoEntry]

\* *success of list_find_and_execute: 1 when f was called, else 0.
success_of_unset(called) == 0

success_of(called) == IF called THEN 1 ELSE 0

\* What f may return: NULL, or a pointer.
FnResults == {"NULL", "PTR"}

\* Taking the list's lock: a worker waits until it is free.
list_lock_nowait(w) == reg_mutex' = w

list_lock(w) == reg_mutex = 0 /\ reg_mutex' = w

\* A worker that is idle starts one of the three operations.
reg_call(w, op, n) ==
    /\ r_pc[w] = "idle"
    /\ r_pc' = [r_pc EXCEPT ![w] = op]
    /\ r_arg' = [r_arg EXCEPT ![w] = n]
    /\ UNCHANGED <<reg, reg_mutex, r_found, r_last, c_nick>>

\* A client without a nickname asks for one.
call_add(w) ==
    /\ c_nick[w] = NoNick
    /\ \E n \in NickPool : reg_call(w, "add_wait", n)

\* A client that was given a nickname is removed from the list.
call_delete(w) ==
    /\ c_nick[w] # NoNick
    /\ reg_call(w, "del_wait", c_nick[w])

call_find(w) == \E n \in NickPool : reg_call(w, "find_wait", n)

\* The lock is taken on entry of each operation.
reg_enter(w) ==
    /\ r_pc[w] \in {"add_wait", "find_wait", "del_wait"}
    /\ list_lock(w)
    /\ r_pc' = [r_pc EXCEPT ![w] = CASE r_pc[w] = "add_wait" -> "add_check"
                                     [] r_pc[w] = "find_wait" -> "find_lookup"
                                     [] OTHER -> "del_remove"]
    /\ UNCHANGED <<reg, r_arg, r_found, r_last, c_nick>>

\* client_list_add, under the lock: the nickname is checked and looked up.
add_check(w) ==
    /\ r_pc[w] = "add_check"
    /\ IF ~nick_valid(r_arg[w])
       THEN /\ r_last' = [worker |-> w, op |-> "add", val |-> "LST_INVALID_NICK"]
            /\ r_pc' = [r_pc EXCEPT ![w] = "unlock"]
       ELSE IF find_word(r_arg[w]) # NoClient
       THEN /\ r_last' = [worker |-> w, op |-> "add", val |-> "LST_ALREADY_EXISTS"]
            /\ r_pc' = [r_pc EXCEPT ![w] = "unlock"]
       ELSE /\ r_pc' = [r_pc EXCEPT ![w] = "add_insert"]
            /\ UNCHANGED r_last
    /\ UNCHANGED <<reg, reg_mutex, r_arg, r_found, c_nick>>

\* client_list_add, under the lock: the client is stored, unless no memory
\* is left for the new nodes.
add_insert(w) ==
    /\ r_pc[w] = "add_insert"
    /\ \/ /\ reg' = [reg EXCEPT ![Key(r_arg[w])] = [client |-> w, nick |-> r_arg[w]]]
          /\ r_last' = [worker |-> w, op |-> "add", val |-> "OK"]
          /\ c_nick' = [c_nick EXCEPT ![w] = r_arg[w]]
       \/ /\ r_last' = [worker |-> w, op |-> "add", val |-> "LST_NO_MEM"]
          /\ UNCHANGED <<reg, c_nick>>
    /\ r_pc' = [r_pc EXCEPT ![w] = "unlock"]
    /\ UNCHANGED <<reg_mutex, r_arg, r_found>>

\* client_list_delete, under the lock: the word client->nick is deleted.
\* client->nick is left as it is, and what list_delete returns (the client
\* that was removed, if any) is discarded.
del_remove(w) ==
    /\ r_pc[w] = "del_remove"
    /\ reg' = delete_word(reg, r_arg[w])
    /\ r_last' = [worker |-> w, op |-> "delete", val |-> "OK",
                  removed |-> find_word(r_arg[w])]
    /\ r_pc' = [r_pc EXCEPT ![w] = "unlock"]
    /\ UNCHANGED <<reg_mutex, r_arg, r_found, c_nick>>

\* client_list_find_and_execute, under the lock: the nickname is looked up;
\* on a match f is called with the matching client.
find_lookup(w) ==
    /\ r_pc[w] = "find_lookup"
    /\ r_found' = [r_found EXCEPT ![w] = find_word(r_arg[w])]
    /\ IF find_word(r_arg[w]) # NoClient
       THEN /\ r_pc' = [r_pc EXCEPT ![w] = "find_fn"]
            /\ UNCHANGED r_last
       ELSE /\ r_pc' = [r_pc EXCEPT ![w] = "unlock"]
            /\ r_last' = [worker |-> w, op |-> "find", val |-> "NULL",
                          success |-> success_of(FALSE), f_called |-> FALSE]
    /\ UNCHANGED <<reg, reg_mutex, r_arg, c_nick>>

\* f returns; its result is returned and *success is 1.
find_fn_return(w) ==
    /\ r_pc[w] = "find_fn"
    /\ r_pc' = [r_pc EXCEPT ![w] = "unlock"]
    /\ \E res \in FnResults :
          r_last' = [worker |-> w, op |-> "find", val |-> res,
                     success |-> success_of(TRUE), f_called |-> TRUE]
    /\ UNCHANGED <<reg, reg_mutex, r_arg, r_found, c_nick>>

\* The lock is released and the operation returns its result to the caller.
reg_leave(w) ==
    /\ r_pc[w] = "unlock"
    /\ reg_mutex' = 0
    /\ r_pc' = [r_pc EXCEPT ![w] = "idle"]
    /\ r_arg' = [r_arg EXCEPT ![w] = NoNick]
    /\ r_found' = [r_found EXCEPT ![w] = NoClient]
    /\ r_last' = NoCall
    /\ UNCHANGED <<reg, c_nick>>

\* client_list_init: an empty list; no client has a nickname.
InitRegistryVars ==
    /\ reg = [k \in RegKeys |-> NoEntry]
    /\ reg_mutex = 0
    /\ r_pc = [w \in RegWorkers |-> "idle"]
    /\ r_arg = [w \in RegWorkers |-> NoNick]
    /\ r_found = [w \in RegWorkers |-> NoClient]
    /\ r_last = NoCall
    /\ c_nick = [w \in RegWorkers |-> NoNick]

StepRegistry ==
    \E w \in RegWorkers :
        \/ call_add(w)
        \/ call_delete(w)
        \/ call_find(w)
        \/ reg_enter(w)
        \/ add_check(w)
        \/ add_insert(w)
        \/ del_remove(w)
        \/ find_lookup(w)
        \/ find_fn_return(w)
        \/ reg_leave(w)

(***************************************************************************)
(* The trie (trie.h): nodes with is_word, children, edges and data.  A     *)
(* node is named by the path of edge positions that leads to it from the   *)
(* root; edges[i] of the node at p is the node at Append(p, i), if any.    *)
(***************************************************************************)
TRIE_INVALID_WORD == 1

TRIE_NO_MEM == 2

\* edges_no of the clients list's trie: the letters and the six specials.
NICK_EDGES_NO == NICK_ALPHABET_SIZE + Cardinality({ch_lbracket, ch_backslash, ch_rbracket,
                                                   ch_caret, ch_backtick, ch_minus})

NoData == <<>>

TrieRoot == <<>>

\* A node that is no word and has no children.
NewNode == [is_word |-> FALSE, children |-> 0, data |-> NoData]

\* The words handed to the trie: "a", "A[", "a{", "[a", and "a1", which holds
\* an invalid character.
TrieWords ==
    {<<ch_a>>, <<ch_A, ch_lbracket>>, <<ch_a, ch_lbrace>>, <<ch_lbracket, ch_a>>, <<ch_a, 49>>}

\* The words looked up: those, "{" and "b".
TrieProbes == TrieWords \cup {<<ch_lbrace>>, <<ch_a + 1>>}

\* The prefixes searched: "", "A", "{", "b".
TriePrefixes == {<<>>, <<ch_A>>, <<ch_lbrace>>, <<ch_a + 1>>}

\* is_valid on every character of a word.
word_valid(word) == \A i \in 1..Len(word) : nick_is_valid(word[i])

\* The path of a word: char_to_pos of each character.
PathOf(word) == [i \in 1..Len(word) |-> nick_char_to_pos(word[i])]

\* The spelling of a path: pos_to_char of each position.
SpellingOf(p) == [i \in 1..Len(p) |-> nick_pos_to_char(p[i])]

PathPrefixes(p) == {SubSeq(p, 1, i) : i \in 0..Len(p)}

Parent(p) == SubSeq(p, 1, Len(p) - 1)

\* init_trie: a root without children.
init_trie == [p \in {TrieRoot} |-> NewNode]

\* add_word_trie: walks the word's path, creating the nodes that are missing,
\* and makes the last node a word holding data.
add_word_trie(t, word, data) ==
    IF ~word_valid(word)
    THEN [ret |-> TRIE_INVALID_WORD, trie |-> t]
    ELSE LET k == PathOf(word)
             created(p) == p \notin DOMAIN t
             node(p) == IF created(p) THEN NewNode ELSE t[p]
             grown(p) == IF p # k /\ created(SubSeq(k, 1, Len(p) + 1))
                         THEN [node(p) EXCEPT !.children = @ + 1]
                         ELSE node(p)
         IN  [ret |-> 0,
              trie |-> [p \in DOMAIN t \cup PathPrefixes(k) |->
                          IF p = k
                          THEN [node(p) EXCEPT !.is_word = TRUE, !.data = data]
                          ELSE IF p \in PathPrefixes(k) THEN grown(p) ELSE t[p]]]

\* find_word_trie: the data of the word's node, NULL when there is no such
\* node or it is no word.
find_word_trie(t, word) ==
    IF word_valid(word) /\ PathOf(word) \in DOMAIN t /\ t[PathOf(word)].is_word
    THEN t[PathOf(word)].data
    ELSE NoData

\* The trie without the node at p: its parent has one child less.
free_node(t, p) ==
    [q \in DOMAIN t \ {p} |->
        IF q = Parent(p) THEN [t[q] EXCEPT !.children = @ - 1] ELSE t[q]]

\* Pruning upwards from p: nodes that are no words and have no children are
\* freed, up to the root, which stays.
prune_node_only(t, p) ==
    IF p # TrieRoot /\ t[p].children = 0 /\ ~t[p].is_word
    THEN free_node(t, p)
    ELSE t

RECURSIVE prune(_, _)
prune(t, p) ==
    IF p # TrieRoot /\ t[p].children = 0 /\ ~t[p].is_word
    THEN prune(free_node(t, p), Parent(p))
    ELSE t

\* delete_word_trie: the word's node stops being a word, its data is returned
\* and the path is pruned; NULL and no change when the word is not there.
delete_word_trie(t, word) ==
    IF find_word_trie(t, word) = NoData
    THEN [data |-> NoData, trie |-> t]
    ELSE LET k == PathOf(word)
         IN  [data |-> t[k].data,
              trie |-> prune([t EXCEPT ![k].is_word = FALSE, ![k].data = NoData], k)]

\* trie_for_each: f is called on the data of every word node, a node before
\* its children and the children in the order of edges[].
RECURSIVE for_each_node(_, _), for_each_edges(_, _, _)
for_each_node(t, p) ==
    (IF t[p].is_word THEN <<t[p].data>> ELSE <<>>) \o for_each_edges(t, p, 0)

for_each_edges(t, p, i) ==
    IF i = NICK_EDGES_NO
    THEN <<>>
    ELSE (IF Append(p, i) \in DOMAIN t THEN for_each_node(t, Append(p, i)) ELSE <<>>)
         \o for_each_edges(t, p, i + 1)

\* A for_each that calls f on the words without children only.
trie_for_each_leaves(t) ==
    LET all == for_each_node(t, TrieRoot)
    IN  SelectSeq(all, LAMBDA d : t[PathOf(d)].children = 0)

trie_for_each(t) == for_each_node(t, TrieRoot)

\* No prefix search is under way: the stack pointer is NULL.
NoCursor == [live |-> FALSE]

\* The depths passed to find_by_prefix_next_trie.
Depths == 1..MaxDepth

\* The stack elements of the children of the node at p, which is at depth d,
\* from edge i on: el, the letter of the edge, and the depth.
RECURSIVE child_frames(_, _, _, _)
child_frames(t, p, d, i) ==
    IF i = NICK_EDGES_NO
    THEN <<>>
    ELSE (IF Append(p, i) \in DOMAIN t
          THEN <<[el |-> Append(p, i), letter |-> nick_pos_to_char(i), depth |-> d + 1]>>
          ELSE <<>>)
         \o child_frames(t, p, d, i + 1)

\* A stack element writes its letter to path[depth - 1] (positions from 1
\* here); the element of the root has depth 0 and writes nothing.
path_write_never(path, e) == path

path_write(path, e) == IF e.depth >= 1 THEN [path EXCEPT ![e.depth] = e.letter] ELSE path

\* The first call of a search: the stack holds the node of the prefix, and
\* path its spelling.  There is nothing to search when the prefix is not a
\* path of the trie or does not fit in depth - 1 characters.
new_stack(t, prefix, depth) ==
    IF ~word_valid(prefix) \/ PathOf(prefix) \notin DOMAIN t \/ Len(prefix) > depth - 1
    THEN [live |-> TRUE, path |-> <<>>, prefix |-> prefix, depth |-> depth, top |-> <<>>]
    ELSE [live |-> TRUE,
          path |-> [i \in 1..(depth - 1) |->
                      IF i <= Len(prefix) THEN SpellingOf(PathOf(prefix))[i] ELSE 0],
          prefix |-> prefix,
          depth |-> depth,
          top |-> <<[el |-> PathOf(prefix),
                     letter |-> IF prefix = <<>> THEN 0 ELSE SpellingOf(PathOf(prefix))[Len(prefix)],
                     depth |-> Len(prefix)]>>]

\* The search goes on from the stack st: elements are popped, each one writes
\* its letter and pushes its children while they are within depth - 1, until
\* a word is popped, which is reported; when the stack runs empty the stack is
\* freed and NULL is returned.
RECURSIVE stack_run(_, _)
stack_run(t, st) ==
    IF st.top = <<>>
    THEN [cur |-> NoCursor, found |-> FALSE, result |-> <<>>, data |-> NoData]
    ELSE LET e == Head(st.top)
             path == path_write(st.path, e)
             pushed == IF e.depth + 1 <= st.depth - 1
                       THEN child_frames(t, e.el, e.depth, 0)
                       ELSE <<>>
             next == [st EXCEPT !.path = path, !.top = pushed \o Tail(st.top)]
         IN  IF t[e.el].is_word
             THEN [cur |-> next, found |-> TRUE,
                   result |-> SubSeq(path, 1, e.depth), data |-> t[e.el].data]
             ELSE stack_run(t, next)

\* find_by_prefix_next_trie(trie, st, prefix, depth, result, err_code, data).
find_by_prefix_next_trie(t, st, prefix, depth) ==
    stack_run(t, IF st.live THEN st ELSE new_stack(t, prefix, depth))

NoQuery == [state |-> "none"]

NoResult == [op |-> "none"]

InitTrieVars ==
    /\ tr = init_trie
    /\ tr_ins = {}
    /\ tr_res = NoResult
    /\ cur = NoCursor
    /\ pf_out = <<>>
    /\ pf_q = NoQuery

\* A word is added; the caller has made sure that it is not in the trie (as
\* the list does, which searches before it adds), and no prefix search is
\* under way.  The word itself is the data.
TrieAdd ==
    /\ ~cur.live
    /\ \E w \in TrieWords :
          /\ \A v \in tr_ins : PathOf(v) # PathOf(w)
          /\ \/ LET r == add_word_trie(tr, w, w)
                IN  /\ tr' = r.trie
                    /\ tr_ins' = IF r.ret = 0 THEN tr_ins \cup {w} ELSE tr_ins
                    /\ tr_res' = [op |-> "add", word |-> w, ret |-> r.ret]
             \/ /\ word_valid(w)
                /\ tr_res' = [op |-> "add", word |-> w, ret |-> TRIE_NO_MEM]
                /\ UNCHANGED <<tr, tr_ins>>
    /\ pf_out' = <<>>
    /\ pf_q' = NoQuery
    /\ UNCHANGED cur

\* A word is deleted, whether it is in the trie or not.
TrieDelete ==
    /\ ~cur.live
    /\ \E w \in TrieProbes :
          LET r == delete_word_trie(tr, w)
          IN  /\ tr' = r.trie
              /\ tr_ins' = {v \in tr_ins : ~(word_valid(w) /\ PathOf(v) = PathOf(w))}
              /\ tr_res' = [op |-> "delete", word |-> w, data |-> r.data]
    /\ pf_out' = <<>>
    /\ pf_q' = NoQuery
    /\ UNCHANGED cur

TrieFind ==
    /\ \E w \in TrieProbes :
          tr_res' = [op |-> "find", word |-> w, data |-> find_word_trie(tr, w)]
    /\ UNCHANGED <<tr, tr_ins, cur, pf_out, pf_q>>

\* trie_for_each with an f that records the data it is called with.
TrieForEach ==
    /\ tr_res' = [op |-> "for_each", visit |-> trie_for_each(tr)]
    /\ UNCHANGED <<tr, tr_ins, cur, pf_out, pf_q>>

\* One call of find_by_prefix_next_trie: the first of a search, with a NULL
\* stack, or the next, with the stack the call before returned.
PrefixNext ==
    /\ \E prefix \in TriePrefixes, depth \in Depths :
          /\ cur.live => prefix = cur.prefix /\ depth = cur.depth
          /\ LET r == find_by_prefix_next_trie(tr, cur, prefix, depth)
             IN  /\ cur' = r.cur
                 /\ pf_out' = IF r.found
                              THEN Append(IF cur.live THEN pf_out ELSE <<>>,
                                          [path |-> r.result, data |-> r.data])
                              ELSE IF cur.live THEN pf_out ELSE <<>>
                 /\ pf_q' = [state |-> IF r.found THEN "active" ELSE "done",
                             prefix |-> prefix, depth |-> depth]
    /\ UNCHANGED <<tr, tr_ins, tr_res>>

\* free_trie_stack: a search is given up before its end.
FreeTrieStack ==
    /\ cur.live
    /\ cur' = NoCursor
    /\ pf_q' = [pf_q EXCEPT !.state = "given up"]
    /\ UNCHANGED <<tr, tr_ins, tr_res, pf_out>>

StepTrie ==
    \/ TrieAdd
    \/ TrieDelete
    \/ TrieFind
    \/ TrieForEach
    \/ PrefixNext
    \/ FreeTrieStack

(***************************************************************************)
(* Delivery to another client's thread: notify_privmsg (send_rpl.c) puts   *)
(* the message in the recipient's queue and sends its async watcher; the   *)
(* recipient's events loop then runs the watcher's callback, which writes  *)
(* the queue to the socket with client_queue_foreach.                      *)
(***************************************************************************)

\* The thread of the recipient, which runs the events loop; the threads of
\* Threads are those that deliver to it.
Loop == NumThreads + 1

Actors == Threads \cup {Loop}

\* The number of notify_privmsg calls in a run: enough to fill the queue and
\* to find it full.
MaxNotify == WRITE_QUEUE_SIZE + 1

\* ev_async_send: the watcher is pending afterwards, whether it was before or
\* not, and whether its callback is running or not.
ev_async_send_lost_in_callback(pending, in_callback) == IF in_callback THEN pending ELSE TRUE

ev_async_send(pending, in_callback) == TRUE

\* What notify_privmsg hands back to its caller when client_enqueue returned
\* ret: nothing, the function is void and ret is dropped.
notify_privmsg_result(ret) == "void"

\* client_enqueue has not returned to notify_privmsg.
NoReturn == [val |-> 0, full |-> FALSE]

InitNotifyIdle ==
    /\ n_pc = [t \in Threads |-> "idle"]
    /\ n_ret = [t \in Threads |-> NoReturn]
    /\ n_sent = [t \in Threads |-> <<>>]
    /\ n_last = NoCall
    /\ n_calls = 0
    /\ async_pending = FALSE
    /\ l_pc = "wait"

\* The recipient's queue after client_queue_init, with the recipient's thread
\* next to the delivering ones.
InitNotifyVars ==
    /\ client_queue_init
    /\ t_pc = [t \in Actors |-> "idle"]
    /\ t_i = [t \in Actors |-> 0]
    /\ t_j = [t \in Actors |-> 0]
    /\ last_ret = [thread |-> 0, op |-> "none", val |-> 0]
    /\ strdup_count = 0
    /\ heap = {}
    /\ enq_log = <<>>
    /\ out_log = <<>>
    /\ fe_snapshot = <<>>
    /\ fe_called = <<>>
    /\ InitNotifyIdle

\* notify_privmsg, line 75: client_enqueue is called and takes the mutex.
notify_call(p) ==
    /\ n_pc[p] = "idle"
    /\ n_calls < MaxNotify
    /\ call_enqueue(p)
    /\ n_pc' = [n_pc EXCEPT ![p] = "enqueue"]
    /\ n_calls' = n_calls + 1
    /\ n_last' = NoCall
    /\ UNCHANGED <<n_ret, n_sent, async_pending, l_pc>>

\* notify_privmsg, line 75: client_enqueue returns; what it returns is dropped.
notify_enqueue(p) ==
    /\ n_pc[p] = "enqueue"
    /\ client_enqueue(p)
    /\ n_pc' = [n_pc EXCEPT ![p] = "send"]
    /\ n_ret' = [n_ret EXCEPT ![p] = [val |-> last_ret'.val, full |-> queue_full]]
    /\ n_sent' = IF last_ret'.val = 0
                 THEN [n_sent EXCEPT ![p] = Append(@, strdup_count')]
                 ELSE n_sent
    /\ UNCHANGED <<n_last, n_calls, async_pending, l_pc>>

\* notify_privmsg, line 76: ev_async_send, and the return to the caller.
notify_send(p) ==
    /\ n_pc[p] = "send"
    /\ async_pending' = ev_async_send(async_pending, l_pc # "wait")
    /\ n_last' = [ret |-> notify_privmsg_result(n_ret[p].val), thread |-> p,
                  enqueue |-> n_ret[p].val, full |-> n_ret[p].full]
    /\ n_pc' = [n_pc EXCEPT ![p] = "idle"]
    /\ n_ret' = [n_ret EXCEPT ![p] = NoReturn]
    /\ UNCHANGED <<n_sent, n_calls, l_pc>>
    /\ UNCHANGED <<queue_vars, thread_vars, hist_vars>>

\* A turn of the recipient's loop: the watcher is pending, it is reset and
\* its callback is called.
loop_wake ==
    /\ l_pc = "wait"
    /\ async_pending
    /\ async_pending' = FALSE
    /\ l_pc' = "callback"
    /\ UNCHANGED <<n_pc, n_ret, n_sent, n_last, n_calls>>
    /\ UNCHANGED <<queue_vars, thread_vars, hist_vars>>

\* The callback calls client_queue_foreach, which takes the mutex.
loop_foreach_call ==
    /\ l_pc = "callback"
    /\ call_foreach(Loop)
    /\ l_pc' = "foreach"
    /\ UNCHANGED <<n_pc, n_ret, n_sent, n_last, n_calls, async_pending>>

\* client_queue_foreach calls f, which writes the message to the socket.
loop_foreach_iter ==
    /\ l_pc = "foreach"
    /\ foreach_iter(Loop)
    /\ UNCHANGED <<n_pc, n_ret, n_sent, n_last, n_calls, async_pending, l_pc>>

loop_foreach_exit ==
    /\ l_pc = "foreach"
    /\ foreach_exit(Loop)
    /\ l_pc' = "return"
    /\ UNCHANGED <<n_pc, n_ret, n_sent, n_last, n_calls, async_pending>>

\* The callback returns and the loop waits for events again.
loop_return ==
    /\ l_pc = "return"
    /\ l_pc' = "wait"
    /\ UNCHANGED <<n_pc, n_ret, n_sent, n_last, n_calls, async_pending>>
    /\ UNCHANGED <<queue_vars, thread_vars, hist_vars>>

StepProducers ==
    \E p \in Threads :
        \/ notify_call(p)
        \/ notify_enqueue(p)
        \/ notify_send(p)

\* The recipient's own thread uses its queue between two turns of the loop:
\* it calls client_dequeue or client_is_queue_empty.
loop_poll_call ==
    /\ l_pc = "wait"
    /\ \/ call_dequeue(Loop)
       \/ call_is_queue_empty(Loop)
    /\ l_pc' = "poll"
    /\ UNCHANGED <<n_pc, n_ret, n_sent, n_last, n_calls, async_pending>>

loop_poll_return ==
    /\ l_pc = "poll"
    /\ \/ client_dequeue(Loop)
       \/ client_is_queue_empty(Loop)
    /\ l_pc' = "wait"
    /\ UNCHANGED <<n_pc, n_ret, n_sent, n_last, n_calls, async_pending>>

StepPoll ==
    \/ loop_poll_call
    \/ loop_poll_return

StepLoop ==
    \/ loop_wake
    \/ loop_foreach_call
    \/ loop_foreach_iter
    \/ loop_foreach_exit
    \/ loop_return

(***************************************************************************)
(* The end of a client: its thread closes the socket, deletes the client   *)
(* from the clients list (client_list_delete) and frees it, the queue      *)
(* included (client_queue_destroy), while other threads look nicknames up. *)
(***************************************************************************)

\* A client may be freed once it was deleted from the clients list.
free_allowed_when_closed(w) == c_life[w] \in {"closed", "deleted"}

free_allowed(w) == c_life[w] = "deleted"

InitLifeVars ==
    /\ c_life = [w \in RegWorkers |-> "live"]
    /\ c_sock = [w \in RegWorkers |-> "open"]

\* A thread whose client is alive adds it under a nickname or looks one up.
live_call(w) ==
    /\ c_life[w] = "live"
    /\ call_add(w) \/ call_find(w)
    /\ UNCHANGED <<c_life, c_sock>>

\* The steps inside the operations of the clients list.
list_step(w) ==
    /\ \/ reg_enter(w)
       \/ add_check(w)
       \/ add_insert(w)
       \/ find_lookup(w)
       \/ find_fn_return(w)
       \/ del_remove(w)
    /\ UNCHANGED <<c_life, c_sock>>

\* An operation returns; when it is the client_list_delete of the client's
\* end, the client is deleted from then on.
list_return(w) ==
    /\ reg_leave(w)
    /\ c_life' = [c_life EXCEPT ![w] = IF @ = "deleting" THEN "deleted" ELSE @]
    /\ UNCHANGED c_sock

\* The client's thread stops reading and closes the socket.
client_close(w) ==
    /\ c_life[w] = "live"
    /\ r_pc[w] = "idle"
    /\ c_life' = [c_life EXCEPT ![w] = "closed"]
    /\ c_sock' = [c_sock EXCEPT ![w] = "closed"]
    /\ UNCHANGED reg_vars

\* It calls client_list_delete, if the client has a nickname.
client_unregister(w) ==
    /\ c_life[w] = "closed"
    /\ IF c_nick[w] = NoNick
       THEN /\ c_life' = [c_life EXCEPT ![w] = "deleted"]
            /\ UNCHANGED reg_vars
       ELSE /\ call_delete(w)
            /\ c_life' = [c_life EXCEPT ![w] = "deleting"]
    /\ UNCHANGED c_sock

\* It destroys the queue and frees the client.
client_free(w) ==
    /\ free_allowed(w)
    /\ c_life' = [c_life EXCEPT ![w] = "freed"]
    /\ UNCHANGED <<c_sock, reg_vars>>

StepLife ==
    \E w \in RegWorkers :
        \/ live_call(w)
        \/ list_step(w)
        \/ list_return(w)
        \/ client_close(w)
        \/ client_unregister(w)
        \/ client_free(w)

(***************************************************************************)
(* Specifications: one per component; the other components stay idle.      *)
(***************************************************************************)

InitLateIdle == InitTrieVars /\ InitNotifyIdle /\ InitLifeVars

InitMoreIdle == InitParseIdle /\ InitCodecIdle /\ InitRegistryVars /\ InitLateIdle

InitQueue == InitQueueVars /\ InitReasmVars /\ InitStreamIdle /\ InitMoreIdle

NextQueue == StepQueue /\ UNCHANGED <<reasm_vars, stream_vars, more_vars>>

SpecQueue == InitQueue /\ [][NextQueue]_vars

InitReasm == InitQueueVars /\ InitReasmVars /\ InitStreamIdle /\ InitMoreIdle

NextReasm ==
    \/ ReadData /\ UNCHANGED <<queue_vars, thread_vars, hist_vars, stream_vars, more_vars>>
    \/ NextMsg /\ UNCHANGED <<queue_vars, thread_vars, hist_vars, stream_vars, more_vars>>

SpecReasm == InitReasm /\ [][NextReasm]_vars

InitStream == InitQueueVars /\ InitReasmVars /\ InitStreamVars /\ InitMoreIdle

NextStream ==
    \/ WorkerRead /\ UNCHANGED <<queue_vars, thread_vars, hist_vars, more_vars>>
    \/ WorkerExtract /\ UNCHANGED <<queue_vars, thread_vars, hist_vars, more_vars>>

SpecStream == InitStream /\ [][NextStream]_vars

\* The queue, the reassembler and the worker's stream, idle.
InitCoreIdle == InitQueueVars /\ InitReasmVars /\ InitStreamIdle

core_vars == <<queue_vars, thread_vars, hist_vars, reasm_vars, stream_vars>>

InitParse == InitCoreIdle /\ InitParseVars /\ InitCodecIdle /\ InitRegistryVars /\ InitLateIdle

NextParse == ParseMsg /\ UNCHANGED <<core_vars, codec_vars, reg_vars, late_vars>>

SpecParse == InitParse /\ [][NextParse]_vars

InitGrammar == InitCoreIdle /\ InitGrammarVars /\ InitCodecIdle /\ InitRegistryVars /\ InitLateIdle

SpecGrammar == InitGrammar /\ [][NextParse]_vars

InitCodec == InitCoreIdle /\ InitParseIdle /\ InitCodecVars /\ InitRegistryVars /\ InitLateIdle

NextCodec ==
    \/ Convert /\ UNCHANGED <<core_vars, parse_vars, reg_vars, late_vars>>
    \/ Decode /\ UNCHANGED <<core_vars, parse_vars, reg_vars, late_vars>>

SpecCodec == InitCodec /\ [][NextCodec]_vars

InitRegistry == InitCoreIdle /\ InitParseIdle /\ InitCodecIdle /\ InitRegistryVars /\ InitLateIdle

NextRegistry == StepRegistry /\ UNCHANGED <<core_vars, parse_vars, codec_vars, late_vars>>

SpecRegistry == InitRegistry /\ [][NextRegistry]_vars

InitTrie ==
    /\ InitCoreIdle /\ InitParseIdle /\ InitCodecIdle /\ InitRegistryVars
    /\ InitTrieVars /\ InitNotifyIdle /\ InitLifeVars

NextTrie ==
    StepTrie /\ UNCHANGED <<core_vars, parse_vars, codec_vars, reg_vars, notify_vars, life_vars>>

SpecTrie == InitTrie /\ [][NextTrie]_vars

InitNotify ==
    /\ InitNotifyVars /\ InitReasmVars /\ InitStreamIdle
    /\ InitParseIdle /\ InitCodecIdle /\ InitRegistryVars /\ InitTrieVars /\ InitLifeVars

\* The components that take no part in the delivery stay as they are.
NotifyOnly ==
    UNCHANGED <<reasm_vars, stream_vars, parse_vars, codec_vars, reg_vars, trie_vars, life_vars>>

NextNotify ==
    \/ StepProducers /\ NotifyOnly
    \/ StepLoop /\ NotifyOnly

SpecNotify == InitNotify /\ [][NextNotify]_vars

\* The delivery together with the recipient's other uses of its queue: all
\* four operations of the queue run, from several threads.
NextQueueUse ==
    \/ NextNotify
    \/ StepPoll /\ NotifyOnly

SpecQueueUse == InitNotify /\ [][NextQueueUse]_vars

\* Threads that are scheduled: a thread inside notify_privmsg goes on, and
\* the recipient's loop takes its turns.
FairNotify ==
    /\ \A p \in Threads :
          /\ WF_vars(notify_enqueue(p) /\ NotifyOnly)
          /\ WF_vars(notify_send(p) /\ NotifyOnly)
    /\ WF_vars(StepLoop /\ NotifyOnly)

SpecNotifyLive == SpecNotify /\ FairNotify

InitLife == InitCoreIdle /\ InitParseIdle /\ InitCodecIdle /\ InitRegistryVars /\ InitLateIdle

NextLife ==
    StepLife /\ UNCHANGED <<core_vars, parse_vars, codec_vars, trie_vars, notify_vars>>

SpecLife == InitLife /\ [][NextLife]_vars

(***************************************************************************)
(* Properties of the queue.                                                *)
(***************************************************************************)

\* The strings still to be handed out: the queue's contents, less those the
\* running client_queue_foreach has already passed to f.
Pending ==
    IF \E t \in Threads : t_pc[t] = "foreach"
    THEN LET t == CHOOSE u \in Threads : t_pc[u] = "foreach" IN
         SubSeq(QueueContents, t_j[t] + 1, Len(QueueContents))
    ELSE QueueContents

\* C1: Queue FIFO.  The strings handed out (returned by client_dequeue, or
\* passed to f) come out in exactly the order in which their client_enqueue
\* calls stored them under the mutex, across wraps of the ring.
C1_QueueFifo == IsPrefix(out_log, enq_log)

\* More strings than the ring has slots were handed out in order, the last
\* one by client_dequeue from a slot the ring had wrapped to.
C1_Witness ==
    /\ Len(out_log) > WRITE_QUEUE_SIZE
    /\ last_ret.op = "dequeue"
    /\ last_ret.val = out_log[Len(out_log)]
    /\ q_elements > 0

\* C2: Bounded queue.  In every reachable state 0 <= elements <=
\* WRITE_QUEUE_SIZE, and the queue holds at most WRITE_QUEUE_SIZE strings.
C2_CountBounded ==
    /\ q_elements >= 0
    /\ q_elements <= WRITE_QUEUE_SIZE
    /\ Len(QueueContents) <= WRITE_QUEUE_SIZE

\* A full queue whose ring has wrapped, after strings were handed out.
C2_Witness ==
    /\ q_elements = WRITE_QUEUE_SIZE
    /\ q_bottom # 0
    /\ Len(out_log) > 0

\* C3: Backpressure.  client_enqueue on a queue that holds WRITE_QUEUE_SIZE
\* strings returns -1 and leaves top, bottom, elements and every slot as they
\* were, so the stored strings are still in their original order.
C3_FullEnqueueStep ==
    \A t \in Threads :
        (t_pc[t] = "enqueue" /\ q_elements = WRITE_QUEUE_SIZE /\ t_pc'[t] = "idle")
        => /\ last_ret' = Returned(t, "enqueue", -1)
           /\ UNCHANGED <<q_messages, q_top, q_bottom, q_elements>>
           /\ QueueContents' = QueueContents

C3_FullEnqueueUnchanged == [][C3_FullEnqueueStep]_vars

\* client_enqueue has just been refused on a full queue although its copy of
\* the message had been made.
C3_Witness ==
    /\ last_ret.op = "enqueue"
    /\ last_ret.val = -1
    /\ q_elements = WRITE_QUEUE_SIZE
    /\ strdup_count \in heap
    /\ \A k \in 1..q_elements : QueueContents[k] # strdup_count

\* C4: client_queue_foreach is atomic.  While it runs it holds the mutex and
\* the queue is as it found it; it passes to f, once each and oldest first,
\* exactly the strings that were queued when it took the mutex; when it
\* returns the queue is empty; and every string ever stored has then been
\* handed out exactly once (none is lost, none is handed out twice).
C4_WhileDraining ==
    \A t \in Threads :
        t_pc[t] = "foreach"
        => /\ q_mutex = t
           /\ QueueContents = fe_snapshot
           /\ fe_called = SubSeq(fe_snapshot, 1, t_j[t])

C4_Conservation == enq_log = out_log \o Pending

C4_DrainReturns ==
    \A t \in Threads :
        (t_pc[t] = "foreach" /\ t_pc'[t] = "idle")
        => /\ fe_called = fe_snapshot
           /\ q_elements' = 0
           /\ q_mutex' = 0
           /\ out_log' = enq_log'

C4_DrainAtomic ==
    /\ [](C4_WhileDraining /\ C4_Conservation)
    /\ [][C4_DrainReturns]_vars

\* client_queue_foreach has returned after passing a full ring of strings to
\* f, the oldest of them taken from a slot other than slot 0.
C4_Witness ==
    /\ last_ret.op = "foreach"
    /\ Len(fe_called) = WRITE_QUEUE_SIZE
    /\ fe_called[1] > 1
    /\ q_elements = 0

(***************************************************************************)
(* Properties of the reassembler.                                          *)
(***************************************************************************)

\* C5: Index order.  After any sequence of read_data and next_msg calls,
\* 0 <= msg_begin <= last_stop <= index <= MAX_MSG_SIZE; right after next_msg
\* returned a message msg_begin = last_stop; right after it returned
\* MSG_CONTINUE msg_begin = 0.
C5_IndexOrder ==
    /\ 0 <= cm.msg_begin
    /\ cm.msg_begin <= cm.last_stop
    /\ cm.last_stop <= cm.index
    /\ cm.index <= MAX_MSG_SIZE
    /\ (nm.ret = "MSG" => cm.msg_begin = cm.last_stop)
    /\ (nm.ret = "MSG_CONTINUE" => cm.msg_begin = 0)

\* C6: read_data never overflows.  In every call, the call that finds the
\* buffer full included, every byte read_from stores goes to an index in
\* 0..MAX_MSG_SIZE-1, and the bytes requested from buf on fit in msg[].
C6_ReadInBounds ==
    rd.ret = "READ"
    => /\ rd.dest >= 0
       /\ rd.dest + rd.n <= MAX_MSG_SIZE
       /\ rd.dest + rd.req <= MAX_MSG_SIZE

\* C9: Over-long line.  When MAX_MSG_SIZE bytes are buffered and scanned
\* without a complete CR LF and the socket delivers more, the next_msg call
\* that follows reports MSG_FINISH_ERR.
C9_OverlongStep ==
    (overlong /\ last_op' = "next_msg") => nm'.ret = "MSG_FINISH_ERR"

C9_OverlongReported == [][C9_OverlongStep]_vars

\* The flags the scan of next_msg holds when it has looked at the bytes before p.
FlagsAt(p) ==
    cm.status \cup UNION {flag_of(cm.msg[k]) : k \in cm.last_stop..(p - 1)}

\* The positions at which the scan has seen both a CR and an LF.
ScanStops == {p \in cm.last_stop..cm.index : FlagsAt(p) = SeenBoth}

FirstStop == CHOOSE p \in ScanStops : \A q \in ScanStops : p <= q

\* C10: Malformed terminator.  When the scan of next_msg has seen both a CR
\* and an LF and the two bytes that end at the scan position are not CR LF,
\* next_msg returns MSG_FINISH_ERR and leaves index = last_stop = msg_begin = 0
\* with both flags clear.
C10_MalformedStep ==
    ( /\ last_op' = "next_msg"
      /\ ScanStops # {}
      /\ \/ FirstStop - cm.msg_begin < 2
         \/ cm.msg[FirstStop - 2] # CR
         \/ cm.msg[FirstStop - 1] # LF )
    => /\ nm'.ret = "MSG_FINISH_ERR"
       /\ cm'.index = 0
       /\ cm'.last_stop = 0
       /\ cm'.msg_begin = 0
       /\ cm'.status = {}

C10_MalformedResets == [][C10_MalformedStep]_vars

\* next_msg has just reported MSG_FINISH_ERR on a buffer that holds an LF
\* directly followed by a CR.
C10_Witness ==
    /\ last_op = "next_msg"
    /\ nm.ret = "MSG_FINISH_ERR"
    /\ cm.index = 0
    /\ \E k \in BufIdx : k + 1 \in BufIdx /\ cm.msg[k] = LF /\ cm.msg[k + 1] = CR

\* C7: Reassembly does not depend on the fragmentation.  For a stream of
\* valid messages, however the reads split it, the messages extracted are the
\* first messages of the stream, and once the stream is consumed they are all
\* of them: the same sequence the stream gives when every read is as long as
\* the buffer allows.
C7_SplitIndependent ==
    /\ IsPrefix(extracted, sent)
    /\ (sock = <<>> /\ w_pc = "read" /\ sent # <<>>)
       => /\ extracted = sent
          /\ extracted = FeedWhole(cm_init, Flatten(sent), <<>>)

\* A stream of several messages has been consumed in reads of which one
\* ended between a CR and its LF.
C7_Witness ==
    /\ sock = <<>>
    /\ w_pc = "read"
    /\ crlf_split
    /\ Len(extracted) >= 2
    /\ reads > Len(sent)

\* The number of bytes of the stream the socket has delivered.
Delivered == Len(Flatten(sent)) - Len(sock)

\* The number of messages of the stream that have been delivered completely.
CompleteCount ==
    Cardinality({k \in 1..Len(sent) : Len(Flatten(SubSeq(sent, 1, k))) <= Delivered})

\* C8: Back-to-back messages.  While the buffer holds complete messages not
\* yet returned, each next_msg call returns the next one in stream order,
\* starting where the previous one ended (at 0 for the first after a read);
\* the call after the last complete one returns MSG_CONTINUE.
C8_ExtractStep ==
    (w_pc = "extract" /\ last_op' = "next_msg")
    => IF Len(extracted) < CompleteCount
       THEN /\ nm'.ret = "MSG"
            /\ nm'.msg = cm.msg_begin
            /\ nm'.msg = (IF nm.ret = "MSG" THEN nm.msg + nm.len ELSE 0)
            /\ cm'.msg_begin = nm'.msg + nm'.len
            /\ extracted' = Append(extracted, sent[Len(extracted) + 1])
       ELSE /\ nm'.ret = "MSG_CONTINUE"
            /\ extracted' = extracted

C8_BackToBack == [][C8_ExtractStep]_vars

\* The first read placed a whole stream of two or more messages in the
\* buffer; next_msg returned them all, and then MSG_CONTINUE.
C8_Witness ==
    /\ reads = 1
    /\ sock = <<>>
    /\ loop_msgs >= 2
    /\ loop_msgs = Len(sent)
    /\ nm.ret = "MSG_CONTINUE"


ParamStrings == [i \in 1..Len(p_res.params) |-> StrAt(p_res.buf, p_res.params[i])]

RECURSIVE StripSpaces(_)
StripSpaces(s) == IF s # <<>> /\ Head(s) = SP THEN StripSpaces(Tail(s)) ELSE s

\* What parse_msg returns for a composed line apart from the trailing
\* parameter: no error, the prefix or NULL, the command, the number of
\* parameters, and the middle parameters in order.
FieldsReturned ==
    /\ p_res.ret >= 0
    /\ IF g_parts.has_prefix
       THEN p_res.prefix # NULL /\ StrAt(p_res.buf, p_res.prefix) = g_parts.prefix
       ELSE p_res.prefix = NULL
    /\ StrAt(p_res.buf, p_res.cmd) = g_parts.cmd
    /\ p_res.params_filled = Len(p_res.params)
    /\ Len(p_res.params) = Len(g_parts.middles) + (IF g_parts.has_trailing THEN 1 ELSE 0)
    /\ \A i \in 1..Len(g_parts.middles) : ParamStrings[i] = g_parts.middles[i]

\* C12 (as stated): for every line of the form
\* [':' prefix SPACE+] command (SPACE+ middle)* [SPACE+ ':' trailing] with at
\* most MAX_IRC_PARAMS parameters, parse_msg succeeds and returns exactly that
\* prefix (or none), that command, and the parameters in order with the
\* trailing text as the last one.
C12_ExactFields ==
    p_pc = "done"
    => /\ FieldsReturned
       /\ g_parts.has_trailing
          => ParamStrings[Len(p_res.params)] = g_parts.trailing

\* C12 (amended): as stated, except that the last parameter is the trailing
\* text without its leading spaces.
C12_FieldsTrailingStripped ==
    p_pc = "done"
    => /\ FieldsReturned
       /\ g_parts.has_trailing
          => ParamStrings[Len(p_res.params)] = StripSpaces(g_parts.trailing)

\* A line with a prefix, MAX_IRC_PARAMS - 1 middle parameters and a trailing
\* parameter that starts with a space and has more text has been parsed.
C12_Witness ==
    /\ p_pc = "done"
    /\ g_parts.has_prefix
    /\ g_parts.has_trailing
    /\ Len(g_parts.middles) = MAX_IRC_PARAMS - 1
    /\ Len(g_parts.trailing) >= 2
    /\ Head(g_parts.trailing) = SP
    /\ g_parts.trailing[2] # SP


\* The offsets (from 1) at which a run of non-space characters of the line starts.
TokenStarts == {i \in 1..Len(p_line) : p_line[i] # SP /\ (i = 1 \/ p_line[i - 1] = SP)}

\* The start of the command's run: the first run, or the second when the
\* first starts with ':' (a prefix); 0 when the line has no such run.
CmdStart ==
    LET first == {i \in TokenStarts : \A j \in TokenStarts : i <= j}
        rest == {i \in TokenStarts : \E j \in TokenStarts : j < i}
        second == {i \in rest : \A j \in rest : i <= j}
    IN  IF first = {} THEN 0
        ELSE IF p_line[CHOOSE i \in first : TRUE] # COLON THEN CHOOSE i \in first : TRUE
        ELSE IF second = {} THEN 0
        ELSE CHOOSE i \in second : TRUE

\* The end of the command's run.
CmdEnd ==
    CHOOSE e \in CmdStart..Len(p_line) :
        /\ \A k \in CmdStart..e : p_line[k] # SP
        /\ (e = Len(p_line) \/ p_line[e + 1] = SP)

\* The line up to the end of its command is accepted by parse_msg.
HeadAccepted ==
    CmdStart # 0 /\ parse_msg(BufOf(SubSeq(p_line, 1, CmdEnd))).ret >= 0

\* The runs after the command that start a parameter: all of them up to and
\* including the first that starts with ':'.
ParamStarts ==
    LET after == {i \in TokenStarts : i > CmdStart}
        colons == {i \in after : p_line[i] = COLON}
    IN  {i \in after : \A c \in colons : i <= c}

ParamCount == IF CmdStart = 0 THEN 0 ELSE Cardinality(ParamStarts)

\* C13: No write past the parameters array.  parse_msg never stores a
\* parameter pointer at an index >= MAX_IRC_PARAMS; a line with exactly
\* MAX_IRC_PARAMS parameters (a ':' trailing one counted) is parsed with
\* MAX_IRC_PARAMS parameters, and a line with more returns the syntax error.
C13_ParamsBounded ==
    p_pc = "done"
    => /\ Len(p_res.params) <= MAX_IRC_PARAMS
       /\ (HeadAccepted /\ ParamCount = MAX_IRC_PARAMS)
          => (p_res.ret >= 0 /\ p_res.params_filled = MAX_IRC_PARAMS)
       /\ ParamCount > MAX_IRC_PARAMS => p_res.ret = -1

\* A line with an accepted command and MAX_IRC_PARAMS + 1 parameters was
\* refused after MAX_IRC_PARAMS pointers were stored.
C13_Witness ==
    /\ p_pc = "done"
    /\ HeadAccepted
    /\ ParamCount = MAX_IRC_PARAMS + 1
    /\ p_res.ret = -1
    /\ Len(p_res.params) = MAX_IRC_PARAMS


\* The command's run of the line.
CmdToken == SubSeq(p_line, CmdStart, CmdEnd)

\* Exactly three digits, or one or more letters.
WellFormedCommand(c) ==
    \/ Len(c) = 3 /\ \A k \in 1..3 : isdigit(c[k])
    \/ Len(c) >= 1 /\ \A k \in 1..Len(c) : isalpha(c[k])

\* C14: Command syntax.  Whenever parse_msg succeeds, the command returned is
\* exactly three digits or a non-empty run of letters, and in the input it was
\* followed by a space or the end of the line; every line whose command is
\* anything else returns the syntax error.
C14_CommandSyntax ==
    p_pc = "done"
    => /\ p_res.ret >= 0
          => LET c == StrAt(p_res.buf, p_res.cmd)
                 e == p_res.cmd + Len(c)
             IN  /\ WellFormedCommand(c)
                 /\ c = SubSeq(p_line, p_res.cmd + 1, e)
                 /\ (e = Len(p_line) \/ p_line[e + 1] = SP)
       /\ (CmdStart # 0 /\ ~WellFormedCommand(CmdToken)) => p_res.ret = -1

\* A line whose command is four digits was refused.
C14_Witness ==
    /\ p_pc = "done"
    /\ CmdStart # 0
    /\ CmdToken = <<"1", "1", "1", "1">>
    /\ p_res.ret = -1


\* The first run of non-space characters of the line; <<>> when it has none.
FirstToken ==
    IF TokenStarts = {} THEN <<>>
    ELSE LET s == CHOOSE i \in TokenStarts : \A j \in TokenStarts : i <= j
             e == CHOOSE k \in s..Len(p_line) :
                    /\ \A m \in s..k : p_line[m] # SP
                    /\ (k = Len(p_line) \/ p_line[k + 1] = SP)
         IN  SubSeq(p_line, s, e)

\* C15: Prefix.  A line whose first non-space character is ':' returns the
\* syntax error when the prefix is empty or when nothing but spaces follows
\* the prefix; otherwise the prefix is exactly the run of non-space
\* characters after the ':'.
C15_Prefix ==
    (p_pc = "done" /\ FirstToken # <<>> /\ Head(FirstToken) = COLON)
    => IF Len(FirstToken) = 1 \/ Cardinality(TokenStarts) = 1
       THEN p_res.ret = -1
       ELSE /\ p_res.prefix # NULL
            /\ StrAt(p_res.buf, p_res.prefix) = Tail(FirstToken)

\* A line that holds a prefix followed by spaces only was refused.
C15_Witness ==
    /\ p_pc = "done"
    /\ FirstToken # <<>>
    /\ Head(FirstToken) = COLON
    /\ Len(FirstToken) > 1
    /\ Cardinality(TokenStarts) = 1
    /\ p_line[Len(p_line)] = SP
    /\ p_res.ret = -1


\* The offsets parse_msg returned point into the buffer, and the fields they
\* point to follow the message format.
ValidTokenisation ==
    /\ p_res.ret \in {0, 1}
    /\ p_res.prefix # NULL
       => /\ p_res.prefix \in 0..Len(p_line)
          /\ StrAt(p_res.buf, p_res.prefix) # <<>>
          /\ \A k \in 1..Len(StrAt(p_res.buf, p_res.prefix)) :
                StrAt(p_res.buf, p_res.prefix)[k] # SP
    /\ p_res.cmd \in 0..Len(p_line)
    /\ WellFormedCommand(StrAt(p_res.buf, p_res.cmd))
    /\ p_res.params_filled \in 0..MAX_IRC_PARAMS
    /\ p_res.params_filled = Len(p_res.params)
    /\ \A i \in 1..Len(p_res.params) :
          /\ p_res.params[i] \in 0..Len(p_line)
          /\ i < Len(p_res.params)
             => /\ ParamStrings[i] # <<>>
                /\ Head(ParamStrings[i]) # COLON
                /\ \A k \in 1..Len(ParamStrings[i]) : ParamStrings[i][k] # SP

\* C16: Totality.  On every null terminated buffer, the empty string and the
\* strings of spaces included, parse_msg returns, reads no byte past the
\* terminating NUL, and yields either a tokenisation that follows the message
\* format or the syntax error.
C16_Total ==
    /\ p_pc = "call" => parse_msg(BufOf(p_line)).ret \in {-1, 0, 1}
    /\ p_pc = "done"
       => /\ p_res.hi <= Len(p_line)
          /\ DOMAIN p_res.buf = 0..Len(p_line)
          /\ p_res.buf[Len(p_line)] = NUL
          /\ (p_res.ret = -1 \/ ValidTokenisation)

\* parse_msg has returned the syntax error on a string of spaces, after
\* reading up to its terminating NUL.
C16_Witness ==
    /\ p_pc = "done"
    /\ p_line # <<>>
    /\ \A k \in 1..Len(p_line) : p_line[k] = SP
    /\ p_res.ret = -1
    /\ p_res.hi = Len(p_line)


\* The offset (from 1) of the ':' that starts the trailing parameter; 0 when
\* the line has none.
TrailingColon ==
    LET c == {i \in ParamStarts : p_line[i] = COLON}
    IN  IF CmdStart = 0 \/ c = {} THEN 0 ELSE CHOOSE i \in c : TRUE

\* The rest of the line after that ':'.
TrailingRest == SubSeq(p_line, TrailingColon + 1, Len(p_line))

\* parse_msg has reached a parameter that starts with ':' and has room for it.
TrailingReached ==
    /\ p_pc = "done"
    /\ HeadAccepted
    /\ TrailingColon # 0
    /\ ParamCount <= MAX_IRC_PARAMS

\* C17 (as stated): when, after skipping spaces, the next parameter starts
\* with ':', the parser takes the rest of the line after that ':' unchanged,
\* spaces included, as one final parameter and stops.
C17_TrailingUnchanged ==
    TrailingReached
    => /\ p_res.ret >= 0
       /\ p_res.params_filled = ParamCount
       /\ ParamStrings[ParamCount] = TrailingRest

\* C17 (amended): the final parameter is the rest of the line after the ':'
\* from its first non-space character on, later spaces included.
C17_TrailingStripped ==
    TrailingReached
    => /\ p_res.ret >= 0
       /\ p_res.params_filled = ParamCount
       /\ ParamStrings[ParamCount] = StripSpaces(TrailingRest)

\* A trailing parameter that starts with a space and holds a space between
\* two other characters has been parsed.
C17_Witness ==
    /\ TrailingReached
    /\ Len(TrailingRest) >= 4
    /\ TrailingRest[1] = SP
    /\ TrailingRest[2] # SP
    /\ TrailingRest[3] = SP
    /\ TrailingRest[4] # SP


(***************************************************************************)
(* Properties of the nicknames codec.                                      *)
(***************************************************************************)

\* The canonical form with '[', ']', '\' standing for themselves and for
\* '{', '}', '|'.
CanonBrackets(c) ==
    IF c >= ch_A /\ c <= ch_Z THEN c + 32
    ELSE IF c = ch_lbrace THEN ch_lbracket
    ELSE IF c = ch_rbrace THEN ch_rbracket
    ELSE IF c = ch_pipe THEN ch_backslash
    ELSE c

\* The canonical form with '{', '}', '|' standing for themselves and for
\* '[', ']', '\'.
CanonBraces(c) ==
    IF c >= ch_A /\ c <= ch_Z THEN c + 32
    ELSE IF c = ch_lbracket THEN ch_lbrace
    ELSE IF c = ch_rbracket THEN ch_rbrace
    ELSE IF c = ch_backslash THEN ch_pipe
    ELSE c

\* C18 (as stated): for every valid nickname character c,
\* nick_pos_to_char(nick_char_to_pos(c)) is the lowercase letter for a letter,
\* '[' for '[' and '{', ']' for ']' and '}', '\' for '\' and '|', and c
\* itself for '-', '`', '^'.
C18_RoundTripBrackets ==
    (k_pc = "done" /\ k_valid) => k_back = CanonBrackets(k_char)

\* C18 (amended): as stated, but the result is '{' for '[' and '{', '}' for
\* ']' and '}', '|' for '\' and '|'.
C18_RoundTripBraces ==
    (k_pc = "done" /\ k_valid)
    => /\ k_back = CanonBraces(k_char)
       /\ k_id \in 0..(NICK_ALPHABET_SIZE + 5)
       /\ nick_is_valid(k_back)
       /\ nick_char_to_pos(k_back) = k_id

\* '[' has gone through the codec.
C18_Witness ==
    /\ k_pc = "done"
    /\ k_valid
    /\ k_char = ch_lbracket
    /\ k_back = ch_lbrace


(***************************************************************************)
(* Properties of the clients list.                                         *)
(***************************************************************************)

\* A nickname after lowercasing and folding '{' to '[', '}' to ']', '|' to '\'.
CanonNick(n) == [i \in 1..Len(n) |-> CanonBrackets(n[i])]

\* The clients registered under a nickname canonically equal to n.
RegisteredAs(n) ==
    {reg[k].client : k \in {j \in RegKeys : /\ reg[j].client # NoClient
                                             /\ CanonNick(reg[j].nick) = CanonNick(n)}}

\* At most one client is registered per canonical nickname.
C19_OnePerNick == \A n \in NickPool : Cardinality(RegisteredAs(n)) <= 1

\* client_list_add on a nickname canonically equal to a registered one
\* answers LST_ALREADY_EXISTS and changes nothing; find_and_execute on such a
\* nickname calls f with the client that registered it.
C19_FoldedStep ==
    \A w \in RegWorkers :
        /\ (r_pc[w] = "add_check" /\ r_pc'[w] # "add_check" /\ RegisteredAs(r_arg[w]) # {})
           => /\ r_last' = [worker |-> w, op |-> "add", val |-> "LST_ALREADY_EXISTS"]
              /\ r_pc'[w] = "unlock"
              /\ reg' = reg
              /\ c_nick' = c_nick
        /\ (r_pc[w] = "find_lookup" /\ r_pc'[w] # "find_lookup" /\ RegisteredAs(r_arg[w]) # {})
           => /\ r_pc'[w] = "find_fn"
              /\ RegisteredAs(r_arg[w]) = {r_found'[w]}

\* C19: One client per canonical nickname.  In every reachable state at most
\* one client is registered per canonical nickname: add on a nickname
\* canonically equal to a registered one returns LST_ALREADY_EXISTS and changes
\* nothing, and find_and_execute on any such spelling calls f with the client
\* that registered it.
C19_CaseFolding == []C19_OnePerNick /\ [][C19_FoldedStep]_vars

\* "B{" is registered; another client's add of "b[" was just refused.
C19_Witness ==
    /\ \E k \in RegKeys : reg[k].client # NoClient /\ reg[k].nick = <<ch_A + 1, ch_lbrace>>
    /\ \E w \in RegWorkers :
          /\ r_pc[w] = "unlock"
          /\ r_arg[w] = <<ch_a + 1, ch_lbracket>>
          /\ r_last = [worker |-> w, op |-> "add", val |-> "LST_ALREADY_EXISTS"]

\* While f runs, the client it was called with is the one registered under
\* the nickname looked up.
C20_SeenRegistered ==
    \A w \in RegWorkers :
        r_pc[w] = "find_fn"
        => /\ r_found[w] # NoClient
           /\ find_word(r_arg[w]) = r_found[w]
           /\ RegisteredAs(r_arg[w]) = {r_found[w]}

\* No add or delete takes effect while f runs.
C20_NoChangeStep == (\E w \in RegWorkers : r_pc[w] = "find_fn") => reg' = reg

\* C20: Atomic find and execute.  In any interleaving of add, delete and
\* find_and_execute, whenever f is called the client passed to it is
\* registered under the nickname at that moment and stays registered under it
\* until f returns.
C20_FindAtomic == []C20_SeenRegistered /\ [][C20_NoChangeStep]_vars

\* f runs on a client whose own worker is waiting to delete it while another
\* spelling of the nickname was looked up.
C20_Witness ==
    \E w \in RegWorkers :
        /\ r_pc[w] = "find_fn"
        /\ r_found[w] # w
        /\ r_pc[r_found[w]] = "del_wait"
        /\ r_arg[w] # c_nick[r_found[w]]


\* Between the search and the insertion of client_list_add nobody else has
\* registered the nickname, and no other add is past its own search.
C21_CheckedStillFree ==
    \A w \in RegWorkers :
        r_pc[w] = "add_insert"
        => /\ RegisteredAs(r_arg[w]) = {}
           /\ \A v \in RegWorkers \ {w} : r_pc[v] \notin {"add_check", "add_insert"}

\* The add that succeeds registers its own client under a nickname that was
\* free; an add whose search finds another client's canonically equal
\* nickname answers LST_ALREADY_EXISTS and leaves that client registered.
C21_AddStep ==
    \A w \in RegWorkers :
        /\ (r_pc[w] = "add_insert" /\ r_pc'[w] = "unlock"
              /\ r_last' = [worker |-> w, op |-> "add", val |-> "OK"])
           => /\ RegisteredAs(r_arg[w]) = {}
              /\ RegisteredAs(r_arg[w])' = {w}
        /\ (r_pc[w] = "add_check" /\ r_pc'[w] # "add_check"
              /\ \E v \in RegWorkers \ {w} : RegisteredAs(r_arg[w]) = {v})
           => /\ r_last' = [worker |-> w, op |-> "add", val |-> "LST_ALREADY_EXISTS"]
              /\ RegisteredAs(r_arg[w])' = RegisteredAs(r_arg[w])

\* C21: Atomic add.  When two workers have concurrently called
\* client_list_add with canonically equal nicknames that are not registered,
\* the search and the insertion of one call are not interleaved with the
\* other's: the call that inserts registers its client and returns success, and
\* the other call finds it and returns LST_ALREADY_EXISTS, the list holding the
\* client of the successful call.
C21_AtomicAdd == []C21_CheckedStillFree /\ [][C21_AddStep]_vars

\* One worker's add of "B{" has just succeeded while another worker, which
\* called add with "b[" before, still waits for the lock.
C21_Witness ==
    \E w, v \in RegWorkers :
        /\ w # v
        /\ r_pc[w] = "unlock"
        /\ r_last = [worker |-> w, op |-> "add", val |-> "OK"]
        /\ r_arg[w] = <<ch_A + 1, ch_lbrace>>
        /\ RegisteredAs(r_arg[w]) = {w}
        /\ r_pc[v] = "add_wait"
        /\ r_arg[v] = <<ch_a + 1, ch_lbracket>>


\* client_list_delete of a client under whose nickname nobody is registered
\* returns normally and changes nothing.
C22_AbsentDeleteStep ==
    \A w \in RegWorkers :
        (r_pc[w] = "del_remove" /\ r_pc'[w] # "del_remove" /\ RegisteredAs(r_arg[w]) = {})
        => /\ reg' = reg
           /\ c_nick' = c_nick
           /\ r_pc'[w] = "unlock"
           /\ r_last' = [worker |-> w, op |-> "delete", val |-> "OK", removed |-> NoClient]

FindReturning == "success" \in DOMAIN r_last

\* success is 1 when f was called and 0 when it was not, and NULL is what is
\* returned when f was not called.
C23_SuccessTellsCalled ==
    FindReturning
    => /\ r_last.success \in {0, 1}
       /\ r_last.success = 1 <=> r_last.f_called
       /\ r_last.success = 0 => r_last.val = "NULL"

\* f is called exactly when the nickname is found.
C23_FindStep ==
    \A w \in RegWorkers :
        (r_pc[w] = "find_lookup" /\ r_pc'[w] # "find_lookup")
        => IF RegisteredAs(r_arg[w]) # {}
           THEN r_pc'[w] = "find_fn"
           ELSE /\ r_pc'[w] = "unlock"
                /\ r_last'.worker = w
                /\ r_last'.op = "find"
                /\ r_last'.success = 0

\* C23: The success flag.  client_list_find_and_execute stores 1 in *success
\* exactly when the nickname was found and f was called, and 0 exactly when no
\* client matched, in which case f is not called and NULL is returned; a NULL
\* returned by f comes with *success = 1.
C23_SuccessFlag == []C23_SuccessTellsCalled /\ [][C23_FindStep]_vars

\* f was called for a registered nickname and returned NULL.
C23_Witness ==
    /\ FindReturning
    /\ r_last.val = "NULL"
    /\ r_last.success = 1
    /\ r_pc[r_last.worker] = "unlock"
    /\ RegisteredAs(r_arg[r_last.worker]) # {}



(***************************************************************************)
(* Properties of the trie.                                                 *)
(***************************************************************************)

\* The word of tr_ins that is canonically equal to w, NoData if there is none.
InsertedAs(w) ==
    IF \E v \in tr_ins : CanonNick(v) = CanonNick(w)
    THEN CHOOSE v \in tr_ins : CanonNick(v) = CanonNick(w)
    ELSE NoData

\* The elements of a sequence.
Range(s) == {s[i] : i \in 1..Len(s)}

\* C24: Trie round trip.  With the words added (and not deleted since) having
\* pairwise distinct canonical forms and distinct data, find_word_trie of a
\* word returns the data added for it under any spelling, find_word_trie of a
\* word that was not added returns NULL, and trie_for_each calls f once for
\* each added data and for nothing else.
C24_RoundTrip ==
    /\ \A v, w \in tr_ins : v # w => CanonNick(v) # CanonNick(w)
    /\ \A w \in TrieProbes : find_word_trie(tr, w) = InsertedAs(w)
    /\ Range(trie_for_each(tr)) = tr_ins
    /\ Len(trie_for_each(tr)) = Cardinality(tr_ins)

\* trie_for_each has visited three words, one of them "A[", which lies below
\* the word "a".
C24_Witness ==
    /\ tr_res.op = "for_each"
    /\ Len(tr_res.visit) = 3
    /\ <<ch_A, ch_lbracket>> \in Range(tr_res.visit)
    /\ <<ch_a>> \in Range(tr_res.visit)

\* The children a node has in the trie.
ChildrenOf(p) == {q \in DOMAIN tr : q # TrieRoot /\ Parent(q) = p}

\* C25: Trie prune.  No node other than the root is left that is no word and
\* has no children, children counts the children a node has, and when every
\* word added has been deleted the trie is the root alone, with children = 0.
C25_Pruned ==
    /\ \A p \in DOMAIN tr :
          /\ tr[p].children = Cardinality(ChildrenOf(p))
          /\ p # TrieRoot => tr[p].is_word \/ tr[p].children > 0
    /\ tr_ins = {} => DOMAIN tr = {TrieRoot} /\ tr[TrieRoot].children = 0

\* The last word, "[a", has just been deleted from the trie.
C25_Witness ==
    /\ tr_ins = {}
    /\ tr_res.op = "delete"
    /\ tr_res.word = <<ch_lbracket, ch_a>>
    /\ tr_res.data # NoData

\* What a prefix search has to report: for each word added that begins with
\* the prefix (canonically) and is at most depth - 1 long, its spelling in the
\* codec's canonical characters, and its data.
PfExpected ==
    {[path |-> [i \in 1..Len(w) |-> CanonBraces(w[i])], data |-> w] :
        w \in {v \in tr_ins : /\ Len(v) <= pf_q.depth - 1
                              /\ Len(v) >= Len(pf_q.prefix)
                              /\ CanonNick(SubSeq(v, 1, Len(pf_q.prefix)))
                                 = CanonNick(pf_q.prefix)}}

\* C26: Prefix search.  Started with a NULL stack and continued with the
\* stack each call returns, find_by_prefix_next_trie reports only words below
\* the prefix that are at most depth - 1 long, each with its canonical
\* spelling and its data, none of them twice; when it returns NULL it has
\* reported all of them and the stack is freed.
C26_PrefixSearch ==
    /\ pf_q.state # "none"
       => /\ Range(pf_out) \subseteq PfExpected
          /\ Cardinality(Range(pf_out)) = Len(pf_out)
    /\ pf_q.state = "active" => cur.live /\ pf_out # <<>>
    /\ pf_q.state = "done" => ~cur.live /\ Range(pf_out) = PfExpected

\* The search below "A" with depth 3 is over: it reported "a", and "a{" for
\* the word added as "A[", and not "[a".
C26_Witness ==
    /\ pf_q.state = "done"
    /\ pf_q.prefix = <<ch_A>>
    /\ pf_q.depth = 3
    /\ Len(pf_out) = 2
    /\ [path |-> <<ch_a, ch_lbrace>>, data |-> <<ch_A, ch_lbracket>>] \in Range(pf_out)
    /\ <<ch_lbracket, ch_a>> \in tr_ins



(***************************************************************************)
(* Properties of the delivery to another client's thread.                  *)
(***************************************************************************)

\* While a message is in the queue and no delivering thread has its
\* ev_async_send still to come, the watcher is pending or its callback is
\* about to write the queue out.
C27_WakeupDue ==
    (q_elements > 0 /\ \A p \in Threads : n_pc[p] = "idle")
    => async_pending \/ l_pc \in {"callback", "foreach"}

\* Every string put in the queue is written to the socket in the end: time
\* and again all the strings put in the queue so far have been written.
C27_AllWritten == []<>(Range(enq_log) \subseteq Range(out_log))

WrittenOf(p) == SelectSeq(out_log, LAMBDA str : str \in Range(n_sent[p]))

\* C28: Delivery order.  The messages one thread has delivered to the
\* recipient with successive notify_privmsg calls are written to the
\* recipient's socket in the order of the calls, however the calls of other
\* threads and the recipient's callback fall in between.
C28_ProducerOrder == \A p \in Threads : IsPrefix(WrittenOf(p), n_sent[p])

\* Two messages of one thread were written with a message of another thread
\* between them.
C28_Witness ==
    \E p, q \in Threads :
        /\ p # q
        /\ Len(n_sent[p]) = 2
        /\ Len(out_log) = 3
        /\ out_log[1] = n_sent[p][1]
        /\ out_log[2] \in Range(n_sent[q])
        /\ out_log[3] = n_sent[p][2]

\* C29: Full queue.  When client_enqueue fails because the recipient's queue
\* is full, the notify_privmsg call reports the failure to its caller.
C29_FailureReported == (n_last.ret # "NONE" /\ n_last.full) => n_last.ret = "error"



(***************************************************************************)
(* Properties of the end of a client.                                      *)
(***************************************************************************)

\* The clients list holds client w.
Referenced(w) == \E k \in RegKeys : reg[k].client = w

\* A client is freed with its socket closed and the clients list not holding
\* it, and the list never holds a freed client.
C30_FreeStep ==
    \A w \in RegWorkers :
        (c_life[w] # "freed" /\ c_life'[w] = "freed")
        => c_sock[w] = "closed" /\ ~Referenced(w)

C30_FreedGone == \A w \in RegWorkers : c_life[w] = "freed" => ~Referenced(w)

\* f (which puts a message in the client's queue) is not running on a freed
\* client.
C30_NoUseAfterFree ==
    \A w \in RegWorkers : r_pc[w] = "find_fn" => c_life[r_found[w]] # "freed"

\* C30: No use after free.  A client is freed only after its socket was
\* closed and the clients list holds it no more: however the end of a client
\* falls together with the client_list_find_and_execute calls of other
\* threads, f is never called on a client that was freed.
C30_FreedAfterUnregister ==
    /\ []C30_FreedGone
    /\ []C30_NoUseAfterFree
    /\ [][C30_FreeStep]_vars

\* f runs on a client whose socket is closed and whose thread waits to delete
\* it from the list.
C30_Witness ==
    \E w, u \in RegWorkers :
        /\ r_pc[w] = "find_fn"
        /\ r_found[w] = u
        /\ u # w
        /\ c_life[u] = "deleting"
        /\ r_pc[u] = "del_wait"
        /\ c_sock[u] = "closed"


(***************************************************************************)
(* Properties of the queue's lock and storage.                             *)
(***************************************************************************)

\* The mutex is held by a thread exactly while that thread is inside one
\* queue operation, and by nobody when no operation is in progress.
C31_HeldInside ==
    /\ q_mutex \in {0} \cup Actors
    /\ \A t \in Actors : (q_mutex = t) <=> (t_pc[t] # "idle")
    /\ (\A t \in Actors : t_pc[t] = "idle") => q_mutex = 0

\* Every return of client_enqueue (0 or -1), client_dequeue (a message or
\* NULL), client_is_queue_empty and client_queue_foreach releases the mutex.
C31_ReturnStep ==
    \A t \in Actors :
        (t_pc[t] # "idle" /\ t_pc'[t] = "idle") => q_mutex = t /\ q_mutex' = 0

\* notify_privmsg signals the recipient's loop after client_enqueue returned.
C31_FreeAtSignal ==
    \A p \in Threads : n_pc[p] = "send" => q_mutex # p /\ t_pc[p] = "idle"

\* C31: The queue mutex is held only inside a single queue operation: every
\* return path of client_enqueue, client_dequeue, client_is_queue_empty and
\* client_queue_foreach releases it, so it is free whenever no queue operation
\* is in progress, and the producer does not hold it when notify_privmsg
\* signals the recipient's loop.
C31_MutexInsideOperation ==
    /\ [](C31_HeldInside /\ C31_FreeAtSignal)
    /\ [][C31_ReturnStep]_vars

\* A producer whose client_enqueue failed is about to signal while the
\* recipient's thread holds the mutex inside client_dequeue.
C31_Witness ==
    \E p \in Threads :
        /\ n_pc[p] = "send"
        /\ n_ret[p].val = -1
        /\ q_mutex = Loop
        /\ t_pc[Loop] = "dequeue"


\* The slots of the messages the queue owns: the elements slots from bottom
\* on, less those a running client_queue_foreach has handed to f already.
OwnedSlots ==
    LET first == IF \E t \in Threads : t_pc[t] = "foreach"
                 THEN t_j[CHOOSE u \in Threads : t_pc[u] = "foreach"] + 1
                 ELSE 1
    IN  {(q_bottom + k - 1) % WRITE_QUEUE_SIZE : k \in first..q_elements}

C33_Ring ==
    /\ q_elements \in 0..WRITE_QUEUE_SIZE
    /\ q_top = (q_bottom + q_elements) % WRITE_QUEUE_SIZE

C34_CopiesAccounted ==
    \A str \in heap : \E s \in OwnedSlots : q_messages[s] = str


(***************************************************************************)
(* More properties of the reassembler.                                     *)
(***************************************************************************)

\* The flags the scan of a next_msg call on c finds set at its end: those set
\* before, and those of the bytes it looks at.
FlagsAfterScan(c) ==
    c.status \cup UNION {flag_of(c.msg[k]) : k \in c.last_stop .. (c.index - 1)}

\* A step in which next_msg returns MSG_CONTINUE.
C32_ContinueStep ==
    (last_op' = "next_msg" /\ nm'.ret = "MSG_CONTINUE")
    => /\ cm'.index = cm.index - cm.msg_begin
       /\ \A k \in 0 .. (cm'.index - 1) : cm'.msg[k] = cm.msg[cm.msg_begin + k]
       /\ cm'.last_stop = cm'.index
       /\ cm'.msg_begin = 0
       /\ cm.status \subseteq cm'.status
       /\ cm'.status = FlagsAfterScan(cm)

HasByte(c, b) == \E k \in c.msg_begin .. (c.last_stop - 1) : c.msg[k] = b

C35_FlagsMatch ==
    /\ (STATUS_SEEN_CR \in cm.status) <=> HasByte(cm, CR)
    /\ (STATUS_SEEN_LF \in cm.status) <=> HasByte(cm, LF)

\* The flags are clear after a message, after MSG_FINISH_ERR and after
\* read_data has reset a full buffer.
C35_Cleared ==
    /\ nm.ret \in {"MSG", "MSG_FINISH_ERR"} => cm.status = {}
    /\ (rd.ret = "READ" /\ rd.dest >= MAX_MSG_SIZE) => cm.status = {}

\* The scan of a next_msg call looks at no byte an earlier scan has seen.
C35_NoRescan ==
    last_op' = "next_msg" => scan_range(cm) \cap scanned = {}

\* C35: From every state reachable through read_data and next_msg,
\* SEEN_CR is set if and only if msg[msg_begin .. last_stop) holds a CR and
\* SEEN_LF if and only if it holds an LF; both flags are clear after every
\* message returned, every MSG_FINISH_ERR and every reset of a full buffer,
\* and no byte is scanned by two next_msg calls.
C35_FlagsTrackScan ==
    /\ [](C35_FlagsMatch /\ C35_Cleared)
    /\ [][C35_NoRescan]_vars


\* Byte k (from 0) of the message the last next_msg call returned.
MsgByte(k) == cm.msg[nm.msg + k]

C37_TailStep ==
    (ol_tail /\ last_op' = "next_msg") => nm'.ret # "MSG"

\* C37: The bytes of a line that is longer than MAX_MSG_SIZE are dropped and
\* never handed on as a message: after read_data has reset the structure
\* because MAX_MSG_SIZE bytes were in msg[] without a terminator, no later
\* next_msg call returns a message made of what remains of that line.
C37_TailDiscarded == [][C37_TailStep]_vars


(***************************************************************************)
(* More properties of the nicknames codec and of the clients list.         *)
(***************************************************************************)

\* C38: The nicknames codec is a bijection between the IDs 0..31 and the
\* canonical characters: for every valid character c, 0 <= nick_char_to_pos(c)
\* < 32; for every ID i in 0..31, nick_pos_to_char(i) is a valid character and
\* nick_char_to_pos(nick_pos_to_char(i)) = i; two valid characters get the
\* same ID if and only if they are canonically equal.
C38_Bijection ==
    /\ (k_pc = "done" /\ k_valid) => k_id \in 0..31
    /\ k_pc = "decoded"
       => /\ k_char \in 0..31
          /\ k_valid
          /\ k_id = k_char
    /\ (k_pc = "done" /\ k_valid /\ nick_is_valid(k_other))
       => ((k_id = k_id2) <=> (CanonBrackets(k_char) = CanonBrackets(k_other)))

\* '[' and '{' have been given the same ID, the ID of the second special.
C38_Witness ==
    /\ k_pc = "done"
    /\ k_char = ch_lbracket
    /\ k_other = ch_lbrace
    /\ k_id = NICK_ALPHABET_SIZE + 1
    /\ k_id2 = k_id


\* A step in which client_list_delete(w) removes what it removes.
C39_DeleteStep ==
    \A w \in RegWorkers :
        (r_pc[w] = "del_remove" /\ r_pc'[w] = "unlock")
        => \A k \in RegKeys :
              (reg[k].client # NoClient /\ reg[k].client # w) => reg'[k] = reg[k]

\* C39: client_list_delete(client) never removes another client's entry: for
\* every sequence of client_list_add and client_list_delete calls, after
\* client_list_delete(c) returns every entry whose value is a client other
\* than c is still registered under the same nickname.
C39_DeleteOwnOnly == [][C39_DeleteStep]_vars


\* Every character of n is a character nick_is_valid allows.
Permitted(n) == \A i \in 1..Len(n) : nick_is_valid(n[i])

\* The nicknames under which a client is registered.
HeldNicks == {reg[k].nick : k \in {j \in RegKeys : reg[j].client # NoClient}}

C40_InvalidAddStep ==
    \A w \in RegWorkers :
        (r_pc[w] = "add_check" /\ r_pc'[w] # "add_check" /\ ~Permitted(r_arg[w]))
        => /\ reg' = reg
           /\ r_pc'[w] = "unlock"
           /\ r_last' = [worker |-> w, op |-> "add", val |-> "LST_INVALID_NICK"]

C40_KeysPermittedOnly ==
    /\ \A n \in HeldNicks : Permitted(n)
    /\ \A k \in RegKeys : reg[k].client # NoClient => Key(reg[k].nick) = k

====
